---- MODULE Spec2Model ----
(***************************************************************************)
(* Batch ledger (hook useWeighingBatch), settlement calculator (hook       *)
(* useSettlement) and session (SessionProvider) of the weighing            *)
(* application.                                                            *)
(*                                                                         *)
(* Numbers.  A JavaScript number x is held as the integer x * Unit, Unit   *)
(* being 100000: five decimals, one more than the safe-math helpers keep.  *)
(* The weights of the ledger specifications are whole kilograms and those  *)
(* of the settlement specifications quarters of a kilogram or whole        *)
(* kilograms, on which the `+` of the source (IEEE double addition) is     *)
(* exact, or a weight below the fourth decimal.  Math.round(x * f) is the  *)
(* integer nearest to the decimal x * f, a tie going up.  On doubles that  *)
(* is what the source computes except for ties whose double lies below the *)
(* decimal; roundToTwo meets no such tie below 2.0 and the inputs of the   *)
(* specifications meet none in toInt and safeMult.                         *)
(*                                                                         *)
(* Timestamps (Date.now()) and batch ids are never read by the ledger      *)
(* logic (batch ids are list keys of the view) and are not part of the     *)
(* records.  generateId() for entries and categories is a counter: every   *)
(* call yields an id never produced before.                                *)
(*                                                                         *)
(* A React state updater passed to setBatchesByKey runs either inside the  *)
(* call (eager evaluation, when the component has no pending update) or    *)
(* later, while rendering.  The handlers that read a variable assigned by  *)
(* the updater right after the call therefore take a Boolean input `eager`.*)
(***************************************************************************)
EXTENDS Integers, Sequences, FiniteSets, TLC

\* ---------------------------------------------------------------- bounds
MaxId == 3
MaxKeyId == 6
MaxCatId == 4
MaxCategories == 2
MaxAppends == 11
MaxSettleId == 3
MaxScenarioKg == 100

MaxBreakdownId == 4

MaxNameId == 3

MaxEntityId == 3

MaxMathSteps == 3

MaxPersistId == 3

MaxSessionId == 2

MaxFrameId == 3
\* Largest id generated in the specification of the entry order.
MaxOrderId == 6
\* Largest id generated in the specification of the category colors: the
\* default category and eight more use up the palette of eight.
MaxColorId == 8
\* Largest id generated in the specification of the sums of a key.
MaxSumId == 6
\* Largest id generated in the specification of the reloaded ledger.
MaxReloadId == 3
\* The clock of the toast specification stops after this many steps of half
\* a toast duration.
MaxToastSteps == 4

\* ------------------------------------------------------------- constants
BATCH_SIZE == 5

PRECISION_FACTOR == 10000

\* The integer that holds the number 1.
Unit == 10 * PRECISION_FACTOR

NULL == -1

TOAST_DURATION == 2500

\* The id 'default' is written 0; generated ids are 1, 2, ...
DEFAULT_CATEGORY ==
    [id |-> 0,
     name |-> <<"P", "a", "p", "a", " ", "B", "l", "a", "n", "c", "a">>,
     color |-> "#10b981"]

CATEGORY_COLORS ==
    <<"#10b981", "#3b82f6", "#f59e0b", "#ef4444",
      "#8b5cf6", "#ec4899", "#14b8a6", "#f97316">>

DEFAULT_ENTITY == "default-provider"

WAREHOUSE_ENTITY == "warehouse"

DEFAULT_ENTITY_NAME ==
    <<"D", "u", "e", "ñ", "o", " ", "P", "r", "i", "n", "c", "i", "p", "a", "l">>

WAREHOUSE_ENTITY_NAME ==
    <<"A", "L", "M", "A", "C", "É", "N", "/", "S", "O", "B", "R", "A", "N", "T", "E">>

\* The ids generateId() yields for entities, by the counter's value.
GeneratedEntityIds ==
    <<"entity-1", "entity-2", "entity-3", "entity-4",
      "entity-5", "entity-6", "entity-7", "entity-8">>

DefaultSettlementData ==
    [prices |-> <<>>, freightRate |-> 0, sackValue |-> 0]

Views == {"weighing", "settlement"}

\* ---------------------------------------------------------------- inputs
EntityIds == {DEFAULT_ENTITY, WAREHOUSE_ENTITY}

Values == {1 * Unit, 2 * Unit}

InvalidValues == {0, -1 * Unit}

\* An id that generateId() never returns.
UnknownId == -2

Modes == {"DESCARGA", "TRANSBORDO"}

NameInputs ==
    { <<>>,
      <<" ">>,
      <<" ", "A", " ">>,
      <<"p", "a", "p", "a", " ", "b", "l", "a", "n", "c", "a">> }

\* Operands of the safe-math helpers.  With at most four decimals: a few
\* ten-thousandths around zero, 0.1, 0.2, 1.2345 and -1.2345.
FourDecimalInputs ==
    {k * (Unit \div PRECISION_FACTOR) : k \in (0 - MaxMathSteps)..MaxMathSteps}
        \cup {Unit \div 10, 2 * (Unit \div 10), 123450, -123450}

\* Weights with decimals: 0.1, 0.2 and 1.2345 kg.
DecimalValues ==
    {Unit \div 10, 2 * (Unit \div 10), 123450}

\* With at most two decimals: a few hundredths around zero, 10.55, 1.5 and
\* -10.55.
TwoDecimalInputs ==
    {k * (Unit \div 100) : k \in (0 - MaxMathSteps)..MaxMathSteps}
        \cup {1055000, 150000, -1055000}

\* With five decimals: 0.00004, 0.00005, 0.00015, -0.00005 and 1.23456.
FiveDecimalInputs ==
    {4, 5, 15, -5, 123456}

\* Arguments of roundToTwo: ties at the third decimal of either sign and
\* their neighbours.
RoundInputs ==
    {234500, -234500, 235500, -235500, 234400, 234600, -234400, -234600,
     500, -500, 100500, -100500, 0, 234000}

\* Messages WeighingScreen shows (BigDisplay.tsx 325, 334).
ToastInputs ==
    {<<"Peso eliminado", "success">>, <<"Valor invalido", "error">>}

\* Names given to addEntity and renameEntity on the session: a new name, a
\* padded one and an empty one.
SessionNameInputs ==
    { <<"B">>, <<" ", "C">>, <<" ">> }

\* Names given to addEntity: a new name, with and without padding.
EntityNameInputs ==
    { <<"B">>, <<" ", "b">> }

\* Names given to renameCategory: those of addCategory, the default name as
\* it is, and new names in either case.
RenameInputs ==
    NameInputs \cup {DEFAULT_CATEGORY.name, <<"a">>, <<"B">>}

\* Weights of the settlement: a quarter of a kilogram and 0.00004 kg.
SettleValues == {Unit \div 4, 4}

\* 0.02
PriceInputs == {2 * (Unit \div 100)}

\* 0.02
RateInputs == {2 * (Unit \div 100)}

\* 0.00495 and 0.005
SackInputs == {495, 500}

\* A number below zero: -1
NegativeInputs == {-1 * Unit}

\* Weights, prices, freight rate and sack value of the settlement scenario:
\* 10 kg and 50 kg; 2.00 and 3.00; 0.50; 20.
ScenarioValues == {10 * Unit, 50 * Unit}

ScenarioPrices == {2 * Unit, 3 * Unit}

ScenarioRate == Unit \div 2

ScenarioSack == 20 * Unit

VARIABLES
    categories,        \* Category[]              (types.ts:110)
    activeCategoryId,  \* string                  (types.ts:115)
    activeEntityId,    \* parameter of the hook   (types.ts:106)
    batchesByKey,      \* Record<string, Batch[]> (types.ts:122)
    nextId,            \* the id the next generateId() call returns
    appends,           \* appends made by the append-only specification
    last,              \* the last call: name, found, batch hit, result
    mode,              \* OperationMode          (SessionContext 77)
    entitiesByMode,    \* Record<mode, Entity[]> (SessionContext 82)
    activeEntityByMode,\* Record<mode, string>   (SessionContext 88)
    currentView,       \* the screen shown       (App.tsx 10)
    settlementData,    \* SettlementData of the mounted useSettlement
    ledgerStorage,     \* localStorage: shpl_categories, shpl_batch_keys,
                       \* shpl_batches_*        (types.ts 33-37)
    settlementStorage, \* localStorage, keys shpl_settlement_<entityId>
    toast,             \* ToastState of useToast  (part_000 15-19)
    toastTimers,       \* due times of the pending setTimeout callbacks
    now                \* the clock, in ms

sessionVars ==
    <<mode, entitiesByMode, activeEntityByMode>>

settlementVars ==
    <<currentView, settlementData, settlementStorage>>

toastVars ==
    <<toast, toastTimers, now>>

vars ==
    <<categories, activeCategoryId, activeEntityId, batchesByKey,
      nextId, appends, last, sessionVars, settlementVars, ledgerStorage,
      toastVars>>

\* ------------------------------------------------------- pure functions
RECURSIVE SumValues(_, _)
SumValues(entries, i) ==
    IF i = 0 THEN 0 ELSE SumValues(entries, i - 1) + entries[i].value

calculateSubtotal(entries) ==
    SumValues(entries, Len(entries))

createNewBatch(entityId, categoryId) ==
    [entries |-> <<>>,
     status |-> "open",
     subtotal |-> NULL,
     categoryId |-> categoryId,
     entityId |-> entityId]

compositeKey(entityId, categoryId) ==
    <<entityId, categoryId>>

currentKey ==
    compositeKey(activeEntityId, activeCategoryId)

HasKey(m, key) ==
    key \in DOMAIN m

SetKey(m, key, batches) ==
    [k \in (DOMAIN m) \cup {key} |-> IF k = key THEN batches ELSE m[k]]

RemoveKeys(m, keys) ==
    [k \in (DOMAIN m) \ keys |-> m[k]]

HasEntry(batch, entryId) ==
    \E j \in 1..Len(batch.entries) : batch.entries[j].id = entryId

FilterEntries(entries, entryId) ==
    SelectSeq(entries, LAMBDA e : e.id # entryId)

\* String.prototype.trim on a sequence of characters
RECURSIVE TrimLeft(_)
TrimLeft(s) ==
    IF Len(s) > 0 /\ Head(s) = " " THEN TrimLeft(Tail(s)) ELSE s

RECURSIVE TrimRight(_)
TrimRight(s) ==
    IF Len(s) > 0 /\ s[Len(s)] = " "
    THEN TrimRight(SubSeq(s, 1, Len(s) - 1))
    ELSE s

Trim(s) ==
    TrimRight(TrimLeft(s))

UpperChars ==
    <<"A", "B", "C", "D", "E", "É", "L", "M", "N", "O", "P", "R", "S", "T">>

LowerChars ==
    <<"a", "b", "c", "d", "e", "é", "l", "m", "n", "o", "p", "r", "s", "t">>

LowerChar(ch) ==
    IF \E i \in 1..Len(UpperChars) : UpperChars[i] = ch
    THEN LowerChars[CHOOSE i \in 1..Len(UpperChars) : UpperChars[i] = ch]
    ELSE ch

toLowerCase(s) ==
    [i \in 1..Len(s) |-> LowerChar(s[i])]

UsedColors(existingCategories) ==
    {existingCategories[i].color : i \in 1..Len(existingCategories)}

getNextColorCycles(existingCategories) ==
    CATEGORY_COLORS[(Len(existingCategories) % Len(CATEGORY_COLORS)) + 1]

getNextColor(existingCategories) ==
    LET free == {i \in 1..Len(CATEGORY_COLORS) :
                    CATEGORY_COLORS[i] \notin UsedColors(existingCategories)}
    IN  IF free # {}
        THEN CATEGORY_COLORS[CHOOSE i \in free : \A j \in free : i <= j]
        ELSE CATEGORY_COLORS[(Len(existingCategories) % Len(CATEGORY_COLORS)) + 1]

CategoryIdSet(cats) ==
    {cats[i].id : i \in 1..Len(cats)}

NameTakenExactCase(cats, lowered) ==
    \E i \in 1..Len(cats) : cats[i].name = lowered

NameTaken(cats, lowered) ==
    \E i \in 1..Len(cats) : toLowerCase(cats[i].name) = lowered

\* ------------------------------------------------------------- safe math
\* Math.round(n / d) for d > 0: the nearest integer, a tie going up.
MathRound(n, d) ==
    (2 * n + d) \div (2 * d)

\* Math.round(n * PRECISION_FACTOR)
toInt(n) ==
    MathRound(n, Unit \div PRECISION_FACTOR)

\* n / PRECISION_FACTOR
fromInt(n) ==
    n * (Unit \div PRECISION_FACTOR)

safeAddToCents(a, b) ==
    MathRound(a + b, Unit \div 100) * (Unit \div 100)

safeAdd(a, b) ==
    fromInt(toInt(a) + toInt(b))

safeSub(a, b) ==
    fromInt(toInt(a) - toInt(b))

safeMultOneDecimal(a, b) ==
    LET factor == 10
        intA == MathRound(a, Unit \div factor)
        intB == MathRound(b, Unit \div factor)
    IN  (intA * intB) * (Unit \div (factor * factor))

safeMult(a, b) ==
    LET factor == 100
        intA == MathRound(a, Unit \div factor)
        intB == MathRound(b, Unit \div factor)
    IN  (intA * intB) * (Unit \div (factor * factor))

\* Math.round((num + Number.EPSILON) * 100) / 100
roundToTwo(num) ==
    LET scaled == MathRound(num, Unit \div 100)
    IN  scaled * (Unit \div 100)

RECURSIVE safeSumTo(_, _)
safeSumTo(values, i) ==
    IF i = 0 THEN 0 ELSE safeAdd(safeSumTo(values, i - 1), values[i])

safeSum(values) ==
    safeSumTo(values, Len(values))

\* The guard of addWeight (297) and of updateWeight (428)
isRefusedValueStrict(value) ==
    value < 0

isRefusedValue(value) ==
    value <= 0

\* isComplete / status / subtotal of a batch whose entries were replaced
\* (addWeight 330-337, deleteWeight 389-395)
recalculateBatchLate(batch, updatedEntries) ==
    LET isComplete == Len(updatedEntries) > BATCH_SIZE
    IN  [batch EXCEPT
            !.entries = updatedEntries,
            !.status = IF isComplete THEN "closed" ELSE "open",
            !.subtotal = IF isComplete
                         THEN calculateSubtotal(updatedEntries)
                         ELSE NULL]

recalculateBatchKeepClosed(batch, updatedEntries) ==
    LET isComplete == Len(updatedEntries) >= BATCH_SIZE \/ batch.status = "closed"
    IN  [batch EXCEPT
            !.entries = updatedEntries,
            !.status = IF isComplete THEN "closed" ELSE "open",
            !.subtotal = IF isComplete
                         THEN calculateSubtotal(updatedEntries)
                         ELSE NULL]

recalculateBatch(batch, updatedEntries) ==
    LET isComplete == Len(updatedEntries) >= BATCH_SIZE
    IN  [batch EXCEPT
            !.entries = updatedEntries,
            !.status = IF isComplete THEN "closed" ELSE "open",
            !.subtotal = IF isComplete
                         THEN calculateSubtotal(updatedEntries)
                         ELSE NULL]

addWeightUpdaterPrepends(m, entityId, categoryId, value, n) ==
    LET key == compositeKey(entityId, categoryId)
        existingBatches ==
            IF HasKey(m, key)
            THEN m[key]
            ELSE <<createNewBatch(entityId, categoryId)>>
        newEntry ==
            [id |-> n, value |-> value,
             categoryId |-> categoryId, entityId |-> entityId]
        lastBatchIndex == Len(existingBatches)
        currentBatch == existingBatches[lastBatchIndex]
        updatedBatch ==
            recalculateBatch(currentBatch, <<newEntry>> \o currentBatch.entries)
        updatedBatches ==
            Append(SubSeq(existingBatches, 1, lastBatchIndex - 1), updatedBatch)
    IN  IF currentBatch.status = "closed"
        THEN SetKey(m, key,
                    Append(existingBatches,
                           [createNewBatch(entityId, categoryId)
                               EXCEPT !.entries = <<newEntry>>]))
        ELSE IF updatedBatch.status = "closed"
        THEN SetKey(m, key,
                    Append(updatedBatches, createNewBatch(entityId, categoryId)))
        ELSE SetKey(m, key, updatedBatches)

\* The updater of addWeight; n is the id generated for the new entry.
addWeightUpdater(m, entityId, categoryId, value, n) ==
    LET key == compositeKey(entityId, categoryId)
        existingBatches ==
            IF HasKey(m, key)
            THEN m[key]
            ELSE <<createNewBatch(entityId, categoryId)>>
        newEntry ==
            [id |-> n, value |-> value,
             categoryId |-> categoryId, entityId |-> entityId]
        lastBatchIndex == Len(existingBatches)
        currentBatch == existingBatches[lastBatchIndex]
        updatedBatch ==
            recalculateBatch(currentBatch, Append(currentBatch.entries, newEntry))
        updatedBatches ==
            Append(SubSeq(existingBatches, 1, lastBatchIndex - 1), updatedBatch)
    IN  IF currentBatch.status = "closed"
        THEN SetKey(m, key,
                    Append(existingBatches,
                           [createNewBatch(entityId, categoryId)
                               EXCEPT !.entries = <<newEntry>>]))
        ELSE IF updatedBatch.status = "closed"
        THEN SetKey(m, key,
                    Append(updatedBatches, createNewBatch(entityId, categoryId)))
        ELSE SetKey(m, key, updatedBatches)

RECURSIVE deleteLoopKeepsEmptied(_, _, _, _, _, _)
deleteLoopKeepsEmptied(existingBatches, i, entryId, entityId, categoryId, acc) ==
    IF i > Len(existingBatches) THEN acc
    ELSE
        LET batch == existingBatches[i]
            updatedEntries == FilterEntries(batch.entries, entryId)
            step ==
                IF ~HasEntry(batch, entryId)
                THEN [acc EXCEPT !.updated = Append(@, batch)]
                ELSE [acc EXCEPT
                        !.found = TRUE,
                        !.updated = Append(@, recalculateBatch(batch, updatedEntries))]
        IN  deleteLoopKeepsEmptied(existingBatches, i + 1, entryId, entityId,
                                   categoryId, step)

\* The for-loop of deleteWeight (372-400); acc = [updated, found].
RECURSIVE deleteLoop(_, _, _, _, _, _)
deleteLoop(existingBatches, i, entryId, entityId, categoryId, acc) ==
    IF i > Len(existingBatches) THEN acc
    ELSE
        LET batch == existingBatches[i]
            updatedEntries == FilterEntries(batch.entries, entryId)
            step ==
                IF ~HasEntry(batch, entryId)
                THEN [acc EXCEPT !.updated = Append(@, batch)]
                ELSE IF Len(updatedEntries) = 0
                THEN IF Len(acc.updated) = 0 /\ i = Len(existingBatches)
                     THEN [updated |-> <<createNewBatch(entityId, categoryId)>>,
                           found |-> TRUE]
                     ELSE [acc EXCEPT !.found = TRUE]
                ELSE [acc EXCEPT
                        !.found = TRUE,
                        !.updated = Append(@, recalculateBatch(batch, updatedEntries))]
        IN  deleteLoop(existingBatches, i + 1, entryId, entityId, categoryId, step)

\* "Ensure there's at least one batch" (402-405)
ensureOneBatch(acc, entityId, categoryId) ==
    IF Len(acc.updated) = 0
    THEN [acc EXCEPT !.updated = <<createNewBatch(entityId, categoryId)>>]
    ELSE acc

ensureLastOpenSkipped(acc, entityId, categoryId) ==
    acc

\* "Ensure the last batch is open for new entries" (407-411)
ensureLastOpen(acc, entityId, categoryId) ==
    IF acc.updated[Len(acc.updated)].status = "closed"
    THEN [acc EXCEPT !.updated = Append(@, createNewBatch(entityId, categoryId))]
    ELSE acc

deleteWeightUpdaterCreatesKey(m, entityId, categoryId, entryId) ==
    LET key == compositeKey(entityId, categoryId)
        looped == deleteLoop(m[key], 1, entryId, entityId, categoryId,
                             [updated |-> <<>>, found |-> FALSE])
        done == ensureLastOpen(ensureOneBatch(looped, entityId, categoryId),
                               entityId, categoryId)
    IN  IF ~HasKey(m, key)
        THEN [map |-> SetKey(m, key, <<createNewBatch(entityId, categoryId)>>),
              found |-> FALSE]
        ELSE [map |-> SetKey(m, key, done.updated), found |-> done.found]

deleteWeightUpdaterDropsEmpty(m, entityId, categoryId, entryId) ==
    LET key == compositeKey(entityId, categoryId)
        looped == deleteLoop(m[key], 1, entryId, entityId, categoryId,
                             [updated |-> <<>>, found |-> FALSE])
    IN  IF ~HasKey(m, key)
        THEN [map |-> m, found |-> FALSE]
        ELSE [map |-> SetKey(m, key,
                         SelectSeq(looped.updated, LAMBDA b : Len(b.entries) > 0)),
              found |-> looped.found]

\* The updater of deleteWeight: new map and the closure variable found.
deleteWeightUpdater(m, entityId, categoryId, entryId) ==
    LET key == compositeKey(entityId, categoryId)
        looped == deleteLoop(m[key], 1, entryId, entityId, categoryId,
                             [updated |-> <<>>, found |-> FALSE])
        done == ensureLastOpen(ensureOneBatch(looped, entityId, categoryId),
                               entityId, categoryId)
    IN  IF ~HasKey(m, key)
        THEN [map |-> m, found |-> FALSE]
        ELSE [map |-> SetKey(m, key, done.updated), found |-> done.found]

updateBatchAppendsEntry(batch, entryId, newValue) ==
    LET updatedEntries ==
            Append(FilterEntries(batch.entries, entryId),
                   [id |-> entryId, value |-> newValue,
                    categoryId |-> batch.categoryId,
                    entityId |-> batch.entityId])
    IN  IF HasEntry(batch, entryId)
        THEN [batch EXCEPT
                !.entries = updatedEntries,
                !.subtotal = IF batch.status = "closed"
                             THEN calculateSubtotal(updatedEntries)
                             ELSE NULL]
        ELSE batch

updateBatchStaleSubtotal(batch, entryId, newValue) ==
    LET updatedEntries ==
            [j \in 1..Len(batch.entries) |->
                IF batch.entries[j].id = entryId
                THEN [batch.entries[j] EXCEPT !.value = newValue]
                ELSE batch.entries[j]]
    IN  IF HasEntry(batch, entryId)
        THEN [batch EXCEPT !.entries = updatedEntries]
        ELSE batch

\* The map callback of updateWeight (436-453)
updateBatch(batch, entryId, newValue) ==
    LET updatedEntries ==
            [j \in 1..Len(batch.entries) |->
                IF batch.entries[j].id = entryId
                THEN [batch.entries[j] EXCEPT !.value = newValue]
                ELSE batch.entries[j]]
    IN  IF HasEntry(batch, entryId)
        THEN [batch EXCEPT
                !.entries = updatedEntries,
                !.subtotal = IF batch.status = "closed"
                             THEN calculateSubtotal(updatedEntries)
                             ELSE NULL]
        ELSE batch

\* The updater of updateWeight: new map and the closure variable found.
updateWeightUpdater(m, key, entryId, newValue) ==
    IF ~HasKey(m, key)
    THEN [map |-> m, found |-> FALSE]
    ELSE [map |-> SetKey(m, key,
                     [i \in 1..Len(m[key]) |-> updateBatch(m[key][i], entryId, newValue)]),
          found |-> \E i \in 1..Len(m[key]) : HasEntry(m[key][i], entryId)]

\* ---------------------------------------------------------------- getters
\* The batch shown for a key without stored batches is created on render
\* and never stored.
activeBatches ==
    IF ~HasKey(batchesByKey, currentKey) \/ Len(batchesByKey[currentKey]) = 0
    THEN <<createNewBatch(activeEntityId, activeCategoryId)>>
    ELSE batchesByKey[currentKey]

RECURSIVE SumBatches(_, _)
SumBatches(batches, i) ==
    IF i = 0 THEN 0
    ELSE SumBatches(batches, i - 1) + calculateSubtotal(batches[i].entries)

RECURSIVE SumClosed(_, _)
SumClosed(batches, i) ==
    IF i = 0 THEN 0
    ELSE SumClosed(batches, i - 1)
            + (IF batches[i].subtotal = NULL THEN 0 ELSE batches[i].subtotal)

getTotalWeightFromSubtotals ==
    SumClosed(activeBatches, Len(activeBatches))

getTotalWeight ==
    SumBatches(activeBatches, Len(activeBatches))

RECURSIVE CountEntries(_, _)
CountEntries(batches, i) ==
    IF i = 0 THEN 0
    ELSE CountEntries(batches, i - 1) + Len(batches[i].entries)

getTotalEntries ==
    CountEntries(activeBatches, Len(activeBatches))

\* The forEach over Object.entries(batchesByKey) of getGrandTotal and
\* getEntityStats (527-541, 549-563): entry values are added with +.
RECURSIVE statsOfKeys(_, _, _)
statsOfKeys(m, keys, entityId) ==
    IF keys = {} THEN [weight |-> 0, entries |-> 0]
    ELSE LET key == CHOOSE k \in keys : TRUE
             rest == statsOfKeys(m, keys \ {key}, entityId)
         IN  IF key[1] = entityId
             THEN [weight |-> rest.weight + SumBatches(m[key], Len(m[key])),
                   entries |-> rest.entries + CountEntries(m[key], Len(m[key]))]
             ELSE rest

getGrandTotal ==
    statsOfKeys(batchesByKey, DOMAIN batchesByKey, activeEntityId)

getEntityStats(entityId) ==
    statsOfKeys(batchesByKey, DOMAIN batchesByKey, entityId)

\* Array.prototype.find: the first open batch, or null
getCurrentBatch ==
    LET open == {i \in 1..Len(activeBatches) : activeBatches[i].status = "open"}
    IN  IF open = {} THEN NULL
        ELSE activeBatches[CHOOSE i \in open : \A j \in open : i <= j]

\* ------------------------------------------------------------ persistence
storedLedgerAllRecords(storage) ==
    [k \in {kk \in DOMAIN storage.data : Len(storage.data[kk]) > 0} |->
        storage.data[k]]

\* The batches the state initializer loads: those of the keys listed under
\* shpl_batch_keys that hold a non-empty array (types.ts 122-137).
storedLedger(storage) ==
    [k \in {kk \in storage.keys \cap DOMAIN storage.data :
                Len(storage.data[kk]) > 0} |-> storage.data[k]]

\* The persistence effects (types.ts 174-194): the categories, the batches of
\* every key and the key list are written, each write by saveToStorage, which
\* catches a throwing store (53-59); a key no longer in the ledger keeps its
\* stored batches.
persistLedger(okCategories, okData, okKeys) ==
    ledgerStorage' =
        [categories |-> IF okCategories
                        THEN categories'
                        ELSE ledgerStorage.categories,
         data |-> IF okData
                  THEN [k \in (DOMAIN ledgerStorage.data)
                                 \cup DOMAIN batchesByKey' |->
                           IF k \in DOMAIN batchesByKey'
                           THEN batchesByKey'[k]
                           ELSE ledgerStorage.data[k]]
                  ELSE ledgerStorage.data,
         keys |-> IF okKeys
                  THEN DOMAIN batchesByKey'
                  ELSE ledgerStorage.keys]

saveLedger ==
    persistLedger(TRUE, TRUE, TRUE)

\* The effects after an operation run for the state that changed
\* (dependencies [categories] and [batchesByKey]); each write may throw.
saveChanged(okCategories, okData, okKeys) ==
    persistLedger(okCategories /\ categories' # categories,
                  okData /\ batchesByKey' # batchesByKey,
                  okKeys /\ batchesByKey' # batchesByKey)

\* ------------------------------------------------------------- settlement
\* loadFromStorage(storageKey, default) of useSettlement (part_003 14-21)
loadSettlement(storage, entityId) ==
    IF entityId \in DOMAIN storage
    THEN storage[entityId]
    ELSE DefaultSettlementData

\* batches.reduce((total, batch) => safeAdd(total, safeSum(values)), 0)
RECURSIVE categoryWeight(_, _)
categoryWeight(batches, i) ==
    IF i = 0 THEN 0
    ELSE safeAdd(categoryWeight(batches, i - 1),
                 safeSum([j \in 1..Len(batches[i].entries) |->
                             batches[i].entries[j].value]))

\* weights[catId] of the keys of every entity
weightsByCategoryAnyEntity(m, entityId) ==
    [c \in {k[2] : k \in DOMAIN m} |->
        LET keys == {k \in DOMAIN m : k[2] = c}
            first == CHOOSE k \in keys : TRUE
            rest == keys \ {first}
            weightOf(k) == categoryWeight(m[k], Len(m[k]))
        IN  IF rest = {}
            THEN safeAdd(0, weightOf(first))
            ELSE safeAdd(weightOf(first), weightOf(CHOOSE k \in rest : TRUE))]

\* weights[catId] of the keys whose entity is entityId (part_003 77-93)
weightsByCategory(m, entityId) ==
    [c \in {k[2] : k \in {kk \in DOMAIN m : kk[1] = entityId}} |->
        safeAdd(0, categoryWeight(m[compositeKey(entityId, c)],
                                  Len(m[compositeKey(entityId, c)])))]

\* weightsByCategory[id] || 0 and prices[id] || 0
OrZero(f, id) ==
    IF id \in DOMAIN f THEN f[id] ELSE 0

RECURSIVE summaryLoopKeepsZero(_, _, _, _)
summaryLoopKeepsZero(cats, i, weights, data) ==
    IF i = 0
    THEN [categoryBreakdown |-> <<>>, grossTotal |-> 0, totalWeight |-> 0]
    ELSE
        LET acc == summaryLoopKeepsZero(cats, i - 1, weights, data)
            category == cats[i]
            weight == OrZero(weights, category.id)
            unitPrice == OrZero(data.prices, category.id)
            subtotal == safeMult(weight, unitPrice)
        IN  IF weight >= 0
            THEN [categoryBreakdown |->
                      Append(acc.categoryBreakdown,
                             [categoryId |-> category.id,
                              categoryName |-> category.name,
                              categoryColor |-> category.color,
                              totalWeight |-> weight,
                              unitPrice |-> unitPrice,
                              subtotal |-> roundToTwo(subtotal)]),
                  grossTotal |-> safeAdd(acc.grossTotal, subtotal),
                  totalWeight |-> safeAdd(acc.totalWeight, weight)]
            ELSE acc

\* categories.forEach of summary (part_003 104-123);
\* acc = [categoryBreakdown, grossTotal, totalWeight]
RECURSIVE summaryLoop(_, _, _, _)
summaryLoop(cats, i, weights, data) ==
    IF i = 0
    THEN [categoryBreakdown |-> <<>>, grossTotal |-> 0, totalWeight |-> 0]
    ELSE
        LET acc == summaryLoop(cats, i - 1, weights, data)
            category == cats[i]
            weight == OrZero(weights, category.id)
            unitPrice == OrZero(data.prices, category.id)
            subtotal == safeMult(weight, unitPrice)
        IN  IF weight > 0
            THEN [categoryBreakdown |->
                      Append(acc.categoryBreakdown,
                             [categoryId |-> category.id,
                              categoryName |-> category.name,
                              categoryColor |-> category.color,
                              totalWeight |-> weight,
                              unitPrice |-> unitPrice,
                              subtotal |-> roundToTwo(subtotal)]),
                  grossTotal |-> safeAdd(acc.grossTotal, subtotal),
                  totalWeight |-> safeAdd(acc.totalWeight, weight)]
            ELSE acc

summaryOfAddsFreight(cats, weights, data) ==
    LET acc == summaryLoop(cats, Len(cats), weights, data)
        freightTotal == safeMult(acc.totalWeight, data.freightRate)
        finalAmount ==
            roundToTwo(safeAdd(safeAdd(acc.grossTotal, freightTotal),
                               data.sackValue))
    IN  [categoryBreakdown |-> acc.categoryBreakdown,
         grossTotal |-> roundToTwo(acc.grossTotal),
         totalWeight |-> acc.totalWeight,
         freightTotal |-> freightTotal,
         sackValue |-> data.sackValue,
         finalAmount |-> finalAmount]

\* The summary memo (part_003 98-139)
summaryOf(cats, weights, data) ==
    LET acc == summaryLoop(cats, Len(cats), weights, data)
        freightTotal == safeMult(acc.totalWeight, data.freightRate)
        finalAmount ==
            roundToTwo(safeAdd(safeSub(acc.grossTotal, freightTotal),
                               data.sackValue))
    IN  [categoryBreakdown |-> acc.categoryBreakdown,
         grossTotal |-> roundToTwo(acc.grossTotal),
         totalWeight |-> acc.totalWeight,
         freightTotal |-> freightTotal,
         sackValue |-> data.sackValue,
         finalAmount |-> finalAmount]

\* The summary of the mounted hook: entityId is the active entity.
summary ==
    summaryOf(categories, weightsByCategory(batchesByKey, activeEntityId),
              settlementData)

hasData ==
    summary.totalWeight > 0

MathMaxSecond(a, b) ==
    b

MathMax(a, b) ==
    IF a >= b THEN a ELSE b

\* ------------------------------------------------------------------ state
RECURSIVE EntryIdsOf(_, _)
EntryIdsOf(batches, i) ==
    IF i = 0 THEN {}
    ELSE EntryIdsOf(batches, i - 1)
            \cup {batches[i].entries[j].id : j \in 1..Len(batches[i].entries)}

KeyEntryIds(m, key) ==
    IF HasKey(m, key) THEN EntryIdsOf(m[key], Len(m[key])) ELSE {}

AllEntryIds(m) ==
    UNION {KeyEntryIds(m, k) : k \in DOMAIN m}

HitStatus(m, key, entryId) ==
    IF entryId \in KeyEntryIds(m, key)
    THEN m[key][CHOOSE i \in 1..Len(m[key]) : HasEntry(m[key][i], entryId)].status
    ELSE IF entryId \in AllEntryIds(m) THEN "other"
    ELSE "none"

\* The record of the last call.
\*   valid: its value argument, if it has one, is > 0
\*   found: the closure variable found once the updater has run
\*   hit:   where the entry id of the call was when the call was made:
\*          "open" / "closed" (status of the batch of the active key that
\*          held it), "other" (held under another key), "none"
\*   ret:   the value returned
Call(op, valid, found, hit, ret) ==
    [op |-> op, valid |-> valid, found |-> found, hit |-> hit, ret |-> ret]

\* Empty storage: loadFromStorage yields the defaults (110-137).
Init ==
    /\ categories = <<DEFAULT_CATEGORY>>
    /\ activeCategoryId = DEFAULT_CATEGORY.id
    /\ activeEntityId = DEFAULT_ENTITY
    /\ batchesByKey = <<>>
    /\ nextId = 1
    /\ appends = 0
    /\ last = Call("init", TRUE, FALSE, "none", FALSE)
    /\ mode = "DESCARGA"
    /\ entitiesByMode =
          [m \in Modes |->
              IF m = "DESCARGA"
              THEN <<[id |-> DEFAULT_ENTITY, name |-> DEFAULT_ENTITY_NAME]>>
              ELSE <<[id |-> WAREHOUSE_ENTITY, name |-> WAREHOUSE_ENTITY_NAME]>>]
    /\ activeEntityByMode =
          [m \in Modes |->
              IF m = "DESCARGA" THEN DEFAULT_ENTITY ELSE WAREHOUSE_ENTITY]
    /\ currentView = "weighing"
    /\ settlementData = DefaultSettlementData
    /\ settlementStorage = <<>>
    /\ ledgerStorage =
          [categories |-> <<DEFAULT_CATEGORY>>, data |-> <<>>, keys |-> {}]
    /\ toast = [message |-> "", type |-> "info", isVisible |-> FALSE]
    /\ toastTimers = {}
    /\ now = 0

\* ---------------------------------------------------------- weight actions
addWeight(value) ==
    LET r == addWeightUpdater(batchesByKey, activeEntityId, activeCategoryId,
                              value, nextId)
    IN  /\ UNCHANGED <<categories, activeCategoryId, activeEntityId>>
        /\ IF isRefusedValue(value)
           THEN /\ last' = Call("addWeight", value > 0, FALSE, "none", FALSE)
                /\ UNCHANGED <<batchesByKey, nextId>>
           ELSE /\ batchesByKey' = r
                /\ nextId' = nextId + 1
                /\ last' = Call("addWeight", value > 0, FALSE, "none", TRUE)

\* found is assigned inside the updater and read by `return found`.
deleteWeight(entryId, eager) ==
    LET r == deleteWeightUpdater(batchesByKey, activeEntityId, activeCategoryId,
                                 entryId)
    IN  /\ batchesByKey' = r.map
        /\ last' = Call("deleteWeight", TRUE, r.found,
                        HitStatus(batchesByKey, currentKey, entryId),
                        IF eager THEN r.found ELSE FALSE)
        /\ UNCHANGED <<categories, activeCategoryId, activeEntityId, nextId>>

updateWeight(entryId, newValue, eager) ==
    LET r == updateWeightUpdater(batchesByKey, currentKey, entryId, newValue)
    IN  /\ UNCHANGED <<categories, activeCategoryId, activeEntityId, nextId>>
        /\ IF isRefusedValue(newValue)
           THEN /\ last' = Call("updateWeight", newValue > 0, FALSE,
                                HitStatus(batchesByKey, currentKey, entryId),
                                FALSE)
                /\ UNCHANGED batchesByKey
           ELSE /\ batchesByKey' = r.map
                /\ last' = Call("updateWeight", newValue > 0, r.found,
                                HitStatus(batchesByKey, currentKey, entryId),
                                IF eager THEN r.found ELSE FALSE)

clearActiveCategoryAllKeys ==
    /\ batchesByKey' =
          [k \in (DOMAIN batchesByKey) \cup {currentKey} |->
              <<createNewBatch(k[1], k[2])>>]
    /\ last' = Call("clearActiveCategory", TRUE, FALSE, "none", FALSE)
    /\ UNCHANGED <<categories, activeCategoryId, activeEntityId, nextId>>

clearActiveCategory ==
    /\ batchesByKey' =
          SetKey(batchesByKey, currentKey,
                 <<createNewBatch(activeEntityId, activeCategoryId)>>)
    /\ last' = Call("clearActiveCategory", TRUE, FALSE, "none", FALSE)
    /\ UNCHANGED <<categories, activeCategoryId, activeEntityId, nextId>>

\* -------------------------------------------------------- category actions
\* The record of a call that takes a category name: the category (NULL when
\* the call names none) and the name passed.
NameCall(op, ret, categoryId, name) ==
    [op |-> op, valid |-> TRUE, found |-> FALSE, hit |-> "none",
     ret |-> ret, categoryId |-> categoryId, name |-> name]

addCategory(name) ==
    LET trimmedName == Trim(name)
        refused == \/ Len(trimmedName) = 0
                   \/ NameTaken(categories, toLowerCase(trimmedName))
        newCategory == [id |-> nextId,
                        name |-> trimmedName,
                        color |-> getNextColor(categories)]
    IN  /\ UNCHANGED <<activeEntityId, batchesByKey>>
        /\ IF refused
           THEN /\ last' = NameCall("addCategory", FALSE, NULL, name)
                /\ UNCHANGED <<categories, activeCategoryId, nextId>>
           ELSE /\ categories' = Append(categories, newCategory)
                /\ activeCategoryId' = newCategory.id
                /\ nextId' = nextId + 1
                /\ last' = NameCall("addCategory", TRUE, NULL, name)

NameTakenByAny(cats, categoryId, lowered) ==
    NameTaken(cats, lowered)

\* categories.some(c => c.id !== categoryId && same lowercase name)
NameTakenByOther(cats, categoryId, lowered) ==
    \E i \in 1..Len(cats) :
        /\ cats[i].id # categoryId
        /\ toLowerCase(cats[i].name) = lowered

renameCategory(categoryId, newName) ==
    LET trimmedName == Trim(newName)
        refused == \/ Len(trimmedName) = 0
                   \/ NameTakenByOther(categories, categoryId,
                                       toLowerCase(trimmedName))
    IN  /\ UNCHANGED <<activeCategoryId, activeEntityId, batchesByKey, nextId>>
        /\ IF refused
           THEN /\ last' = NameCall("renameCategory", FALSE, categoryId,
                                    newName)
                /\ UNCHANGED categories
           ELSE /\ categories' =
                      [i \in 1..Len(categories) |->
                          IF categories[i].id = categoryId
                          THEN [categories[i] EXCEPT !.name = trimmedName]
                          ELSE categories[i]]
                /\ last' = NameCall("renameCategory", TRUE, categoryId,
                                    newName)

\* The record of a call that names a category, with the number of ledger
\* keys it deleted.
CategoryCall(op, ret, categoryId, removed) ==
    [op |-> op, valid |-> TRUE, found |-> FALSE, hit |-> "none",
     ret |-> ret, categoryId |-> categoryId, removed |-> removed]

\* The cascade of deleteCategory that leaves the keys of the other entities
deleteCascadeActiveEntityOnly(m, categoryId) ==
    RemoveKeys(m, {k \in DOMAIN m : k = compositeKey(activeEntityId, categoryId)})

\* setBatchesByKey of deleteCategory: every key of the category is deleted
deleteCascade(m, categoryId) ==
    RemoveKeys(m, {k \in DOMAIN m : k[2] = categoryId})

deleteCategoryRefusedOnlyLast(categoryId) ==
    Len(categories) <= 1

deleteCategoryRefused(categoryId) ==
    \/ categoryId = DEFAULT_CATEGORY.id
    \/ Len(categories) <= 1

deleteCategory(categoryId) ==
    LET refused == deleteCategoryRefused(categoryId)
    IN  /\ UNCHANGED <<activeEntityId, nextId>>
        /\ IF refused
           THEN /\ last' = CategoryCall("deleteCategory", FALSE, categoryId, 0)
                /\ UNCHANGED <<categories, activeCategoryId, batchesByKey>>
           ELSE /\ categories' = SelectSeq(categories, LAMBDA c : c.id # categoryId)
                /\ batchesByKey' = deleteCascade(batchesByKey, categoryId)
                /\ activeCategoryId' =
                      IF activeCategoryId = categoryId
                      THEN DEFAULT_CATEGORY.id
                      ELSE activeCategoryId
                /\ last' = CategoryCall("deleteCategory", TRUE, categoryId,
                                        Cardinality({k \in DOMAIN batchesByKey :
                                                        k[2] = categoryId}))

switchCategoryAnyId(categoryId) ==
    /\ activeCategoryId' = categoryId
    /\ last' = CategoryCall("switchCategory", FALSE, categoryId, 0)
    /\ UNCHANGED <<categories, activeEntityId, batchesByKey, nextId>>

switchCategory(categoryId) ==
    /\ activeCategoryId' =
          IF categoryId \in CategoryIdSet(categories)
          THEN categoryId
          ELSE activeCategoryId
    /\ last' = CategoryCall("switchCategory", FALSE, categoryId, 0)
    /\ UNCHANGED <<categories, activeEntityId, batchesByKey, nextId>>

\* ----------------------------------------------------------- session action
\* The active entity is the one stored for the mode (SessionContext 94-95);
\* setMode re-renders the hook with it.
setMode(newMode) ==
    /\ mode' = newMode
    /\ activeEntityId' = activeEntityByMode[newMode]
    /\ last' = Call("setMode", TRUE, FALSE, "none", FALSE)
    /\ UNCHANGED <<categories, activeCategoryId, batchesByKey, nextId,
                   entitiesByMode, activeEntityByMode>>

\* With a new id selected, the active entity becomes that id and a mounted
\* useSettlement saves its data under the new storage key (part_003 70-72).
addEntity(name) ==
    LET trimmedName == Trim(name)
        entities == entitiesByMode[mode]
        refused == \/ Len(trimmedName) = 0
                   \/ \E i \in 1..Len(entities) :
                         toLowerCase(entities[i].name) = toLowerCase(trimmedName)
        newEntity == [id |-> GeneratedEntityIds[nextId], name |-> trimmedName]
    IN  /\ UNCHANGED <<categories, activeCategoryId, batchesByKey, mode,
                       currentView, settlementData>>
        /\ IF refused
           THEN /\ last' = Call("addEntity", TRUE, FALSE, "none", FALSE)
                /\ UNCHANGED <<entitiesByMode, activeEntityByMode,
                               activeEntityId, nextId, settlementStorage>>
           ELSE /\ entitiesByMode' =
                      [entitiesByMode EXCEPT ![mode] = Append(@, newEntity)]
                /\ activeEntityByMode' =
                      [activeEntityByMode EXCEPT ![mode] = newEntity.id]
                /\ activeEntityId' = newEntity.id
                /\ nextId' = nextId + 1
                /\ settlementStorage' =
                      IF currentView = "settlement"
                      THEN SetKey(settlementStorage, newEntity.id, settlementData)
                      ELSE settlementStorage
                /\ last' = Call("addEntity", TRUE, FALSE, "none", TRUE)

setActiveEntity(id) ==
    LET entities == entitiesByMode[mode]
        known == \E i \in 1..Len(entities) : entities[i].id = id
    IN  /\ UNCHANGED <<categories, activeCategoryId, batchesByKey, nextId, mode,
                       entitiesByMode, currentView, settlementData>>
        /\ last' = Call("setActiveEntity", TRUE, known, "none", FALSE)
        /\ IF known
           THEN /\ activeEntityByMode' =
                      [activeEntityByMode EXCEPT ![mode] = id]
                /\ activeEntityId' = id
                /\ settlementStorage' =
                      IF currentView = "settlement"
                      THEN SetKey(settlementStorage, id, settlementData)
                      ELSE settlementStorage
           ELSE UNCHANGED <<activeEntityByMode, activeEntityId,
                            settlementStorage>>

\* The record of a call that names an entity; a successful removeEntity
\* has hit "active" when the entity removed was the active one.
EntityCall(op, ret, entityId, name) ==
    [op |-> op, valid |-> TRUE, found |-> FALSE, hit |-> "none",
     ret |-> ret, entityId |-> entityId, name |-> name]

removeEntityRefusedOnlyLast(id) ==
    Len(entitiesByMode[mode]) <= 1

removeEntityRefused(id) ==
    \/ id = DEFAULT_ENTITY
    \/ id = WAREHOUSE_ENTITY
    \/ Len(entitiesByMode[mode]) <= 1

firstIdOrEmptyAlwaysEmpty(remaining) ==
    ""

\* remaining[0]?.id || ''
firstIdOrEmpty(remaining) ==
    IF Len(remaining) > 0 THEN remaining[1].id ELSE ""

removeEntity(id) ==
    LET currentEntities == entitiesByMode[mode]
        remaining == SelectSeq(currentEntities, LAMBDA e : e.id # id)
    IN  /\ UNCHANGED <<categories, activeCategoryId, batchesByKey, nextId, mode,
                       currentView, settlementData>>
        /\ IF removeEntityRefused(id)
           THEN /\ last' = EntityCall("removeEntity", FALSE, id, <<>>)
                /\ UNCHANGED <<entitiesByMode, activeEntityByMode,
                               activeEntityId, settlementStorage>>
           ELSE /\ entitiesByMode' =
                      [entitiesByMode EXCEPT ![mode] = remaining]
                /\ activeEntityByMode' =
                      IF activeEntityByMode[mode] = id
                      THEN [activeEntityByMode EXCEPT
                               ![mode] = firstIdOrEmpty(remaining)]
                      ELSE activeEntityByMode
                /\ activeEntityId' = activeEntityByMode'[mode]
                /\ settlementStorage' =
                      IF currentView = "settlement"
                         /\ activeEntityId' # activeEntityId
                      THEN SetKey(settlementStorage, activeEntityId',
                                  settlementData)
                      ELSE settlementStorage
                /\ last' = [EntityCall("removeEntity", TRUE, id, <<>>)
                               EXCEPT !.hit = IF activeEntityByMode[mode] = id
                                              THEN "active"
                                              ELSE "none"]

renameEntity(id, newName) ==
    LET trimmedName == Trim(newName)
        entities == entitiesByMode[mode]
        refused == \/ Len(trimmedName) = 0
                   \/ \E i \in 1..Len(entities) :
                         /\ entities[i].id # id
                         /\ toLowerCase(entities[i].name) =
                               toLowerCase(trimmedName)
    IN  /\ UNCHANGED <<categories, activeCategoryId, activeEntityId,
                       batchesByKey, nextId, mode, activeEntityByMode,
                       settlementVars>>
        /\ IF refused
           THEN /\ last' = EntityCall("renameEntity", FALSE, id, newName)
                /\ UNCHANGED entitiesByMode
           ELSE /\ entitiesByMode' =
                      [entitiesByMode EXCEPT
                          ![mode] =
                              [i \in 1..Len(entities) |->
                                  IF entities[i].id = id
                                  THEN [entities[i] EXCEPT
                                           !.name = trimmedName]
                                  ELSE entities[i]]]
                /\ last' = EntityCall("renameEntity", TRUE, id, newName)

\* ------------------------------------------------------- settlement actions
\* The record of a call of a settlement setter: the category (NULL when the
\* setter has none) and the number passed.
SettleCall(op, categoryId, number) ==
    [op |-> op, valid |-> TRUE, found |-> FALSE, hit |-> "none",
     ret |-> FALSE, categoryId |-> categoryId, number |-> number]

\* setSettlementData followed by the persistence effect (part_003 70-72)
storeSettlement(data) ==
    /\ settlementData' = data
    /\ settlementStorage' = SetKey(settlementStorage, activeEntityId, data)

setPrice(categoryId, price) ==
    LET sanitizedPrice == MathMax(0, price)
    IN  /\ storeSettlement(
              [settlementData EXCEPT
                  !.prices = SetKey(@, categoryId, sanitizedPrice)])
        /\ last' = SettleCall("setPrice", categoryId, price)
        /\ UNCHANGED <<categories, activeCategoryId, activeEntityId,
                       batchesByKey, nextId, sessionVars, currentView>>

setFreightRate(rate) ==
    LET sanitizedRate == MathMax(0, rate)
    IN  /\ storeSettlement([settlementData EXCEPT !.freightRate = sanitizedRate])
        /\ last' = SettleCall("setFreightRate", NULL, rate)
        /\ UNCHANGED <<categories, activeCategoryId, activeEntityId,
                       batchesByKey, nextId, sessionVars, currentView>>

setSackValue(value) ==
    LET sanitizedValue == MathMax(0, value)
    IN  /\ storeSettlement([settlementData EXCEPT !.sackValue = sanitizedValue])
        /\ last' = SettleCall("setSackValue", NULL, value)
        /\ UNCHANGED <<categories, activeCategoryId, activeEntityId,
                       batchesByKey, nextId, sessionVars, currentView>>

resetSettlement ==
    /\ storeSettlement(DefaultSettlementData)
    /\ last' = SettleCall("resetSettlement", NULL, 0)
    /\ UNCHANGED <<categories, activeCategoryId, activeEntityId,
                   batchesByKey, nextId, sessionVars, currentView>>

\* setCurrentView: the screen left is unmounted and the screen entered is
\* mounted.  Each screen has its own useWeighingBatch, whose active category
\* starts at the default one (types.ts 115) and whose categories and batches
\* are loaded from the store (types.ts 110-137); SettlementScreen mounts useSettlement, which loads
\* the data of the active entity and saves it (part_003 59-72).
navigate(view) ==
    /\ last' = Call("navigate", TRUE, FALSE, "none", FALSE)
    /\ UNCHANGED <<activeEntityId, nextId, sessionVars>>
    /\ IF view = currentView
       THEN UNCHANGED <<categories, batchesByKey, currentView,
                        activeCategoryId, settlementData, settlementStorage>>
       ELSE /\ currentView' = view
            /\ categories' = ledgerStorage.categories
            /\ batchesByKey' = storedLedger(ledgerStorage)
            /\ activeCategoryId' = DEFAULT_CATEGORY.id
            /\ IF view = "settlement"
               THEN storeSettlement(loadSettlement(settlementStorage,
                                                   activeEntityId))
               ELSE /\ settlementData' = DefaultSettlementData
                    /\ UNCHANGED settlementStorage

\* ------------------------------------------------------------ specification
IdInputs ==
    AllEntryIds(batchesByKey) \cup {UnknownId}

AddWeight ==
    \E v \in Values \cup InvalidValues :
        /\ addWeight(v)
        /\ nextId' <= MaxId + 1
        /\ UNCHANGED <<appends, sessionVars, settlementVars>>
        /\ saveLedger
        /\ UNCHANGED toastVars

DeleteWeight ==
    \E id \in IdInputs, eager \in BOOLEAN :
        /\ deleteWeight(id, eager)
        /\ UNCHANGED <<appends, sessionVars, settlementVars>>
        /\ saveLedger
        /\ UNCHANGED toastVars

UpdateWeight ==
    \E id \in IdInputs, v \in Values \cup InvalidValues, eager \in BOOLEAN :
        /\ updateWeight(id, v, eager)
        /\ UNCHANGED <<appends, sessionVars, settlementVars>>
        /\ saveLedger
        /\ UNCHANGED toastVars

ClearActiveCategory ==
    /\ clearActiveCategory
    /\ UNCHANGED <<appends, sessionVars, settlementVars>>
    /\ saveLedger
    /\ UNCHANGED toastVars

SetMode ==
    \E m \in Modes :
        /\ setMode(m)
        /\ UNCHANGED <<appends, settlementVars>>
        /\ saveLedger
        /\ UNCHANGED toastVars

\* The ledger of two entities under the default category.
Next ==
    \/ AddWeight
    \/ DeleteWeight
    \/ UpdateWeight
    \/ ClearActiveCategory
    \/ SetMode

Spec == Init /\ [][Next]_vars

\* The ledger of one key, followed to a second batch.
KeyAddWeight ==
    \E v \in Values :
        /\ addWeight(v)
        /\ nextId' <= MaxKeyId + 1
        /\ UNCHANGED <<appends, sessionVars, settlementVars>>
        /\ saveLedger
        /\ UNCHANGED toastVars

KeyUpdateWeight ==
    \E id \in IdInputs, v \in Values, eager \in BOOLEAN :
        /\ updateWeight(id, v, eager)
        /\ UNCHANGED <<appends, sessionVars, settlementVars>>
        /\ saveLedger
        /\ UNCHANGED toastVars

NextKey ==
    \/ KeyAddWeight
    \/ DeleteWeight
    \/ KeyUpdateWeight
    \/ ClearActiveCategory

SpecKey == Init /\ [][NextKey]_vars

\* Successful appends only.
AppendOnly ==
    \E v \in Values :
        /\ appends < MaxAppends
        /\ addWeight(v)
        /\ appends' = appends + 1
        /\ saveLedger
        /\ UNCHANGED toastVars
        /\ UNCHANGED <<sessionVars, settlementVars>>

NextAppend ==
    AppendOnly

SpecAppend == Init /\ [][NextAppend]_vars

\* The ledger with the category directory.
AddCategory ==
    \E name \in NameInputs :
        /\ addCategory(name)
        /\ Len(categories') <= MaxCategories
        /\ nextId' <= MaxCatId + 1
        /\ UNCHANGED <<appends, sessionVars, settlementVars>>
        /\ saveLedger
        /\ UNCHANGED toastVars

DeleteCategory ==
    \E id \in CategoryIdSet(categories) \cup {UnknownId} :
        /\ deleteCategory(id)
        /\ UNCHANGED <<appends, sessionVars, settlementVars>>
        /\ saveLedger
        /\ UNCHANGED toastVars

SwitchCategory ==
    \E id \in CategoryIdSet(categories) \cup {UnknownId} :
        /\ switchCategory(id)
        /\ UNCHANGED <<appends, sessionVars, settlementVars>>
        /\ saveLedger
        /\ UNCHANGED toastVars

CatAddWeight ==
    \E v \in Values :
        /\ addWeight(v)
        /\ nextId' <= MaxCatId + 1
        /\ UNCHANGED <<appends, sessionVars, settlementVars>>
        /\ saveLedger
        /\ UNCHANGED toastVars

NextCategories ==
    \/ CatAddWeight
    \/ AddCategory
    \/ DeleteCategory
    \/ SwitchCategory
    \/ SetMode

SpecCategories == Init /\ [][NextCategories]_vars

\* The ledger of the two default entities, then its settlement: weights are
\* entered on the weighing screen and the settlement screen is opened on them.
SettleAddWeight ==
    \E v \in SettleValues :
        /\ currentView = "weighing"
        /\ addWeight(v)
        /\ nextId' <= MaxSettleId + 1
        /\ UNCHANGED <<appends, sessionVars, settlementVars>>
        /\ saveLedger
        /\ UNCHANGED toastVars

SettleDeleteWeight ==
    \E id \in IdInputs :
        /\ currentView = "weighing"
        /\ deleteWeight(id, TRUE)
        /\ UNCHANGED <<appends, sessionVars, settlementVars>>
        /\ saveLedger
        /\ UNCHANGED toastVars

SettleAddCategory ==
    /\ currentView = "weighing"
    /\ addCategory(<<" ", "A", " ">>)
    /\ nextId' <= MaxSettleId + 1
    /\ UNCHANGED <<appends, sessionVars, settlementVars>>
    /\ saveLedger
    /\ UNCHANGED toastVars

SettleSwitchCategory ==
    \E id \in CategoryIdSet(categories) :
        /\ currentView = "weighing"
        /\ switchCategory(id)
        /\ UNCHANGED <<appends, sessionVars, settlementVars>>
        /\ saveLedger
        /\ UNCHANGED toastVars

SettleSetMode ==
    \E m \in Modes :
        /\ currentView = "weighing"
        /\ setMode(m)
        /\ UNCHANGED <<appends, settlementVars>>
        /\ saveLedger
        /\ UNCHANGED toastVars

SettleNavigate ==
    /\ currentView = "weighing"
    /\ navigate("settlement")
    /\ UNCHANGED appends
    /\ saveLedger
    /\ UNCHANGED toastVars

SetPrice ==
    \E id \in CategoryIdSet(categories), price \in PriceInputs :
        /\ currentView = "settlement"
        /\ setPrice(id, price)
        /\ UNCHANGED appends
        /\ saveLedger
        /\ UNCHANGED toastVars

SetFreightRate ==
    \E rate \in RateInputs :
        /\ currentView = "settlement"
        /\ setFreightRate(rate)
        /\ UNCHANGED appends
        /\ saveLedger
        /\ UNCHANGED toastVars

SetSackValue ==
    \E value \in SackInputs :
        /\ currentView = "settlement"
        /\ setSackValue(value)
        /\ UNCHANGED appends
        /\ saveLedger
        /\ UNCHANGED toastVars

ResetSettlement ==
    /\ currentView = "settlement"
    /\ resetSettlement
    /\ UNCHANGED appends
    /\ saveLedger
    /\ UNCHANGED toastVars

NextSettlement ==
    \/ SettleAddWeight
    \/ SettleDeleteWeight
    \/ SettleAddCategory
    \/ SettleSwitchCategory
    \/ SettleSetMode
    \/ SettleNavigate
    \/ SetPrice
    \/ SetFreightRate
    \/ SetSackValue

SpecSettlement == Init /\ [][NextSettlement]_vars

\* The settlement scenario: one entity, two categories, at most
\* MaxScenarioKg kilograms under a key.
ScenarioAddWeight ==
    \E v \in ScenarioValues :
        /\ currentView = "weighing"
        /\ getTotalWeight + v <= MaxScenarioKg * Unit
        /\ addWeight(v)
        /\ UNCHANGED <<appends, sessionVars, settlementVars>>
        /\ saveLedger
        /\ UNCHANGED toastVars

ScenarioAddCategory ==
    /\ currentView = "weighing"
    /\ Len(categories) = 1
    /\ addCategory(<<" ", "A", " ">>)
    /\ UNCHANGED <<appends, sessionVars, settlementVars>>
    /\ saveLedger
    /\ UNCHANGED toastVars

ScenarioNavigate ==
    /\ currentView = "weighing"
    /\ navigate("settlement")
    /\ UNCHANGED appends
    /\ saveLedger
    /\ UNCHANGED toastVars

ScenarioSetPrice ==
    \E id \in CategoryIdSet(categories), price \in ScenarioPrices :
        /\ currentView = "settlement"
        /\ setPrice(id, price)
        /\ UNCHANGED appends
        /\ saveLedger
        /\ UNCHANGED toastVars

ScenarioSetFreightRate ==
    /\ currentView = "settlement"
    /\ setFreightRate(ScenarioRate)
    /\ UNCHANGED appends
    /\ saveLedger
    /\ UNCHANGED toastVars

ScenarioSetSackValue ==
    /\ currentView = "settlement"
    /\ setSackValue(ScenarioSack)
    /\ UNCHANGED appends
    /\ saveLedger
    /\ UNCHANGED toastVars

NextScenario ==
    \/ ScenarioAddWeight
    \/ ScenarioAddCategory
    \/ ScenarioNavigate
    \/ ScenarioSetPrice
    \/ ScenarioSetFreightRate
    \/ ScenarioSetSackValue

SpecScenario == Init /\ [][NextScenario]_vars

\* The settlement inputs of one entity with two categories: the setters with
\* valid and negative numbers, and resetSettlement.
SetterAddCategory ==
    /\ currentView = "weighing"
    /\ Len(categories) = 1
    /\ addCategory(<<" ", "A", " ">>)
    /\ UNCHANGED <<appends, sessionVars, settlementVars>>
    /\ saveLedger
    /\ UNCHANGED toastVars

SetterNavigate ==
    /\ currentView = "weighing"
    /\ navigate("settlement")
    /\ UNCHANGED appends
    /\ saveLedger
    /\ UNCHANGED toastVars

SetterSetPrice ==
    \E id \in CategoryIdSet(categories),
       price \in PriceInputs \cup NegativeInputs :
        /\ currentView = "settlement"
        /\ setPrice(id, price)
        /\ UNCHANGED appends
        /\ saveLedger
        /\ UNCHANGED toastVars

SetterSetFreightRate ==
    \E rate \in RateInputs \cup NegativeInputs :
        /\ currentView = "settlement"
        /\ setFreightRate(rate)
        /\ UNCHANGED appends
        /\ saveLedger
        /\ UNCHANGED toastVars

SetterSetSackValue ==
    \E value \in SackInputs \cup NegativeInputs :
        /\ currentView = "settlement"
        /\ setSackValue(value)
        /\ UNCHANGED appends
        /\ saveLedger
        /\ UNCHANGED toastVars

NextSetters ==
    \/ SetterAddCategory
    \/ SetterNavigate
    \/ SetterSetPrice
    \/ SetterSetFreightRate
    \/ SetterSetSackValue
    \/ ResetSettlement

SpecSetters == Init /\ [][NextSetters]_vars


\* The ledger of two entities and two categories seen by the settlement
\* breakdown.
BreakdownAddWeight ==
    \E v \in SettleValues :
        /\ currentView = "weighing"
        /\ addWeight(v)
        /\ nextId' <= MaxBreakdownId + 1
        /\ UNCHANGED <<appends, sessionVars, settlementVars>>
        /\ saveLedger
        /\ UNCHANGED toastVars

BreakdownAddCategory ==
    /\ currentView = "weighing"
    /\ addCategory(<<" ", "A", " ">>)
    /\ nextId' <= MaxBreakdownId + 1
    /\ UNCHANGED <<appends, sessionVars, settlementVars>>
    /\ saveLedger
    /\ UNCHANGED toastVars

NextBreakdown ==
    \/ BreakdownAddWeight
    \/ BreakdownAddCategory
    \/ SettleSwitchCategory
    \/ SettleSetMode
    \/ SettleNavigate
    \/ SetPrice

SpecBreakdown == Init /\ [][NextBreakdown]_vars

\* The category directory: names added, renamed and deleted.
NameAddCategory ==
    \E name \in NameInputs :
        /\ addCategory(name)
        /\ nextId' <= MaxNameId + 1
        /\ UNCHANGED <<appends, sessionVars, settlementVars>>
        /\ saveLedger
        /\ UNCHANGED toastVars

RenameCategory ==
    \E id \in CategoryIdSet(categories) \cup {UnknownId},
       name \in RenameInputs :
        /\ renameCategory(id, name)
        /\ UNCHANGED <<appends, sessionVars, settlementVars>>
        /\ saveLedger
        /\ UNCHANGED toastVars

NextNames ==
    \/ NameAddCategory
    \/ RenameCategory
    \/ DeleteCategory
    \/ SwitchCategory

SpecNames == Init /\ [][NextNames]_vars

\* The settlement of several entities: entities are added on the weighing
\* screen and selected on either screen (EntitySelector, EntitySwitcher); the
\* settlement inputs are shown once the entity has weight.
EntityAddWeight ==
    /\ currentView = "weighing"
    /\ addWeight(Unit \div 4)
    /\ nextId' <= MaxEntityId + 1
    /\ UNCHANGED <<appends, sessionVars, settlementVars>>
    /\ saveLedger
    /\ UNCHANGED toastVars

EntityAddEntity ==
    \E name \in EntityNameInputs :
        /\ currentView = "weighing"
        /\ addEntity(name)
        /\ nextId' <= MaxEntityId + 1
        /\ UNCHANGED appends
        /\ saveLedger
        /\ UNCHANGED toastVars

EntitySetActiveEntity ==
    \E id \in {DEFAULT_ENTITY, WAREHOUSE_ENTITY}
              \cup {GeneratedEntityIds[i] : i \in 1..MaxEntityId} :
        /\ setActiveEntity(id)
        /\ UNCHANGED appends
        /\ saveLedger
        /\ UNCHANGED toastVars

EntityNavigate ==
    \E view \in Views :
        /\ navigate(view)
        /\ UNCHANGED appends
        /\ saveLedger
        /\ UNCHANGED toastVars

EntitySetPrice ==
    \E id \in CategoryIdSet(categories), price \in PriceInputs :
        /\ currentView = "settlement"
        /\ hasData
        /\ setPrice(id, price)
        /\ UNCHANGED appends
        /\ saveLedger
        /\ UNCHANGED toastVars

EntitySetFreightRate ==
    \E rate \in RateInputs :
        /\ currentView = "settlement"
        /\ hasData
        /\ setFreightRate(rate)
        /\ UNCHANGED appends
        /\ saveLedger
        /\ UNCHANGED toastVars

EntitySetSackValue ==
    \E value \in SackInputs :
        /\ currentView = "settlement"
        /\ hasData
        /\ setSackValue(value)
        /\ UNCHANGED appends
        /\ saveLedger
        /\ UNCHANGED toastVars

NextEntities ==
    \/ EntityAddWeight
    \/ EntityAddEntity
    \/ EntitySetActiveEntity
    \/ EntityNavigate
    \/ EntitySetPrice
    \/ EntitySetFreightRate
    \/ EntitySetSackValue
    \/ ResetSettlement

SpecEntities == Init /\ [][NextEntities]_vars

\* The safe-math helpers applied to operands of either sign.
MathCall(op, a, b, result) ==
    [op |-> op, valid |-> TRUE, found |-> FALSE, hit |-> "none",
     ret |-> FALSE, a |-> a, b |-> b, result |-> result]

MathFrame ==
    UNCHANGED <<categories, activeCategoryId, activeEntityId, batchesByKey,
                nextId, appends, sessionVars, settlementVars, ledgerStorage,
                toastVars>>

ApplySafeAdd ==
    \E a, b \in FourDecimalInputs \cup FiveDecimalInputs :
        /\ last' = MathCall("safeAdd", a, b, safeAdd(a, b))
        /\ MathFrame

ApplySafeSub ==
    \E a, b \in FourDecimalInputs \cup FiveDecimalInputs :
        /\ last' = MathCall("safeSub", a, b, safeSub(a, b))
        /\ MathFrame

ApplySafeMult ==
    \E a, b \in TwoDecimalInputs \cup FiveDecimalInputs \cup {500, 1500} :
        /\ last' = MathCall("safeMult", a, b, safeMult(a, b))
        /\ MathFrame

ApplyRoundToTwo ==
    \E x \in RoundInputs :
        /\ last' = MathCall("roundToTwo", x, 0, roundToTwo(x))
        /\ MathFrame

NextMath ==
    \/ ApplySafeAdd
    \/ ApplySafeSub
    \/ ApplySafeMult
    \/ ApplyRoundToTwo

SpecMath == Init /\ [][NextMath]_vars

\* The ledger with a store whose writes may throw (a full or disabled
\* localStorage): every write of an effect succeeds or fails on its own.
PersistAddWeight ==
    \E okCategories, okData, okKeys \in BOOLEAN :
        /\ currentView = "weighing"
        /\ addWeight(Unit)
        /\ nextId' <= MaxPersistId + 1
        /\ saveChanged(okCategories, okData, okKeys)
        /\ UNCHANGED <<appends, sessionVars, settlementVars, toastVars>>

PersistDeleteWeight ==
    \E id \in IdInputs, okCategories, okData, okKeys \in BOOLEAN :
        /\ currentView = "weighing"
        /\ deleteWeight(id, TRUE)
        /\ saveChanged(okCategories, okData, okKeys)
        /\ UNCHANGED <<appends, sessionVars, settlementVars, toastVars>>

PersistAddCategory ==
    \E okCategories, okData, okKeys \in BOOLEAN :
        /\ currentView = "weighing"
        /\ addCategory(<<" ", "A", " ">>)
        /\ nextId' <= MaxPersistId + 1
        /\ saveChanged(okCategories, okData, okKeys)
        /\ UNCHANGED <<appends, sessionVars, settlementVars, toastVars>>

PersistNavigate ==
    \E view \in Views, okCategories, okData, okKeys \in BOOLEAN :
        /\ navigate(view)
        /\ IF view = currentView
           THEN UNCHANGED ledgerStorage
           ELSE persistLedger(okCategories, okData, okKeys)
        /\ UNCHANGED <<appends, toastVars>>

NextPersist ==
    \/ PersistAddWeight
    \/ PersistDeleteWeight
    \/ PersistAddCategory
    \/ PersistNavigate

SpecPersist == Init /\ [][NextPersist]_vars

\* The session: entities added, removed, renamed and selected in the two
\* modes.
SessionEntityIds ==
    {DEFAULT_ENTITY, WAREHOUSE_ENTITY}
        \cup {GeneratedEntityIds[i] : i \in 1..MaxSessionId}

SessionAddEntity ==
    \E name \in SessionNameInputs :
        /\ addEntity(name)
        /\ nextId' <= MaxSessionId + 1
        /\ UNCHANGED appends
        /\ saveLedger
        /\ UNCHANGED toastVars

SessionRemoveEntity ==
    \E id \in SessionEntityIds :
        /\ removeEntity(id)
        /\ UNCHANGED appends
        /\ saveLedger
        /\ UNCHANGED toastVars

SessionRenameEntity ==
    \E id \in SessionEntityIds, name \in SessionNameInputs :
        /\ renameEntity(id, name)
        /\ UNCHANGED appends
        /\ saveLedger
        /\ UNCHANGED toastVars

SessionSetActiveEntity ==
    \E id \in SessionEntityIds :
        /\ setActiveEntity(id)
        /\ UNCHANGED appends
        /\ saveLedger
        /\ UNCHANGED toastVars

NextSession ==
    \/ SessionAddEntity
    \/ SessionRemoveEntity
    \/ SessionRenameEntity
    \/ SessionSetActiveEntity
    \/ SetMode

SpecSession == Init /\ [][NextSession]_vars

\* The ledger of two entities and two categories under every ledger
\* operation.
FrameAddWeight ==
    /\ addWeight(Unit)
    /\ nextId' <= MaxFrameId + 1
    /\ UNCHANGED <<appends, sessionVars, settlementVars>>
    /\ saveLedger
    /\ UNCHANGED toastVars

FrameDeleteWeight ==
    \E id \in IdInputs :
        /\ deleteWeight(id, TRUE)
        /\ UNCHANGED <<appends, sessionVars, settlementVars>>
        /\ saveLedger
        /\ UNCHANGED toastVars

FrameUpdateWeight ==
    \E id \in IdInputs :
        /\ updateWeight(id, 2 * Unit, TRUE)
        /\ UNCHANGED <<appends, sessionVars, settlementVars>>
        /\ saveLedger
        /\ UNCHANGED toastVars

FrameAddCategory ==
    /\ addCategory(<<" ", "A", " ">>)
    /\ nextId' <= MaxFrameId + 1
    /\ UNCHANGED <<appends, sessionVars, settlementVars>>
    /\ saveLedger
    /\ UNCHANGED toastVars

FrameSwitchCategory ==
    \E id \in CategoryIdSet(categories) :
        /\ switchCategory(id)
        /\ UNCHANGED <<appends, sessionVars, settlementVars>>
        /\ saveLedger
        /\ UNCHANGED toastVars

NextFrame ==
    \/ FrameAddWeight
    \/ FrameDeleteWeight
    \/ FrameUpdateWeight
    \/ ClearActiveCategory
    \/ FrameAddCategory
    \/ FrameSwitchCategory
    \/ SetMode

SpecFrame == Init /\ [][NextFrame]_vars

\* The ledger of one key with entries of one weight, followed to a second
\* batch: the order of the entries under append, delete, update and clear.
OrderAddWeight ==
    /\ addWeight(Unit)
    /\ nextId' <= MaxOrderId + 1
    /\ UNCHANGED <<appends, sessionVars, settlementVars>>
    /\ saveLedger
    /\ UNCHANGED toastVars

NextOrder ==
    \/ OrderAddWeight
    \/ DeleteWeight
    \/ FrameUpdateWeight
    \/ ClearActiveCategory

SpecOrder == Init /\ [][NextOrder]_vars

\* The category directory grown past the palette: every category added gets
\* a name of its own (as many x as its id), any category may be deleted.
ColorAddCategory ==
    /\ addCategory([i \in 1..nextId |-> "x"])
    /\ nextId' <= MaxColorId + 1
    /\ UNCHANGED <<appends, sessionVars, settlementVars>>
    /\ saveLedger
    /\ UNCHANGED toastVars

NextColors ==
    \/ ColorAddCategory
    \/ DeleteCategory

SpecColors == Init /\ [][NextColors]_vars

\* The ledger of one key with weights that have decimals, followed to a
\* second batch, as the sums of the settlement see it.
SumAddWeight ==
    \E v \in DecimalValues :
        /\ addWeight(v)
        /\ nextId' <= MaxSumId + 1
        /\ UNCHANGED <<appends, sessionVars, settlementVars>>
        /\ saveLedger
        /\ UNCHANGED toastVars

NextSums ==
    \/ SumAddWeight
    \/ FrameDeleteWeight

SpecSums == Init /\ [][NextSums]_vars

\* The ledger of one entity and two categories, every write succeeding,
\* with the screen changed at any time: the screen shown mounts the hook
\* anew and loads the ledger from storage (App.tsx 20-49, types.ts 110-137).
ReloadAddWeight ==
    /\ addWeight(Unit)
    /\ nextId' <= MaxReloadId + 1
    /\ UNCHANGED <<appends, sessionVars, settlementVars>>
    /\ saveLedger
    /\ UNCHANGED toastVars

ReloadAddCategory ==
    /\ addCategory(<<" ", "A", " ">>)
    /\ nextId' <= MaxReloadId + 1
    /\ UNCHANGED <<appends, sessionVars, settlementVars>>
    /\ saveLedger
    /\ UNCHANGED toastVars

ReloadNavigate ==
    \E view \in Views :
        /\ navigate(view)
        /\ UNCHANGED appends
        /\ saveLedger
        /\ UNCHANGED toastVars

NextReload ==
    \/ ReloadAddWeight
    \/ FrameDeleteWeight
    \/ FrameUpdateWeight
    \/ ClearActiveCategory
    \/ ReloadAddCategory
    \/ DeleteCategory
    \/ FrameSwitchCategory
    \/ ReloadNavigate

SpecReload == Init /\ [][NextReload]_vars

\* Entities with weights: an entity is added and weighed for on the
\* weighing screen, then removed through EntitySelector, which WeighingScreen
\* mounts without onEntityDeleted (BigDisplay.tsx 363-364).
NextRemoval ==
    \/ SessionAddEntity
    \/ FrameAddWeight
    \/ SessionSetActiveEntity
    \/ SessionRemoveEntity

SpecRemoval == Init /\ [][NextRemoval]_vars

\* ------------------------------------------------------------------ toast
\* The record of a call of useToast, of a timer callback or of time passing.
ToastCall(op, message) ==
    [op |-> op, valid |-> TRUE, found |-> FALSE, hit |-> "none",
     ret |-> FALSE, name |-> message]

ToastFrame ==
    UNCHANGED <<categories, activeCategoryId, activeEntityId, batchesByKey,
                nextId, appends, sessionVars, settlementVars, ledgerStorage>>

\* showToast (part_000 21-28): the state is replaced and a timer is set.
showToast(message, type) ==
    /\ toast' = [message |-> message, type |-> type, isVisible |-> TRUE]
    /\ toastTimers' = toastTimers \cup {now + TOAST_DURATION}
    /\ last' = ToastCall("showToast", message)
    /\ UNCHANGED now
    /\ ToastFrame

\* hideToast (part_000 30-32)
hideToast ==
    /\ toast' = [toast EXCEPT !.isVisible = FALSE]
    /\ last' = ToastCall("hideToast", toast.message)
    /\ UNCHANGED <<toastTimers, now>>
    /\ ToastFrame

\* The callback given to setTimeout (part_000 25-27) runs when due.
toastTimeout(due) ==
    /\ due <= now
    /\ toast' = [toast EXCEPT !.isVisible = FALSE]
    /\ toastTimers' = toastTimers \ {due}
    /\ last' = ToastCall("timeout", toast.message)
    /\ UNCHANGED now
    /\ ToastFrame

\* Time passes, half a toast duration at a time, once the due callbacks
\* have run.
toastTick ==
    /\ \A due \in toastTimers : due > now
    /\ now < MaxToastSteps * (TOAST_DURATION \div 2)
    /\ now' = now + (TOAST_DURATION \div 2)
    /\ last' = ToastCall("tick", toast.message)
    /\ UNCHANGED <<toast, toastTimers>>
    /\ ToastFrame

ShowToast ==
    \E input \in ToastInputs :
        showToast(input[1], input[2])

ToastTimeout ==
    \E due \in toastTimers :
        toastTimeout(due)

NextToast ==
    \/ ShowToast
    \/ hideToast
    \/ ToastTimeout
    \/ toastTick

SpecToast == Init /\ [][NextToast]_vars

\* ================================================================ claims
RECURSIVE ValueSum(_)
ValueSum(entries) ==
    IF entries = <<>> THEN 0
    ELSE Head(entries).value + ValueSum(Tail(entries))

RECURSIVE Flatten(_)
Flatten(batches) ==
    IF batches = <<>> THEN <<>>
    ELSE Head(batches).entries \o Flatten(Tail(batches))

StoredBatches(key) ==
    IF HasKey(batchesByKey, key) THEN batchesByKey[key] ELSE <<>>

EmptyOpenBatch(entityId, categoryId) ==
    [entries |-> <<>>, status |-> "open", subtotal |-> NULL,
     categoryId |-> categoryId, entityId |-> entityId]

BatchWellFormed(b) ==
    /\ (b.status = "closed") <=> (Len(b.entries) = BATCH_SIZE)
    /\ (Len(b.entries) = BATCH_SIZE)
          <=> (b.subtotal # NULL /\ b.subtotal = ValueSum(b.entries))
    /\ (b.status = "open") => (Len(b.entries) < BATCH_SIZE /\ b.subtotal = NULL)
    /\ Len(b.entries) <= BATCH_SIZE
    /\ b.status \in {"open", "closed"}

\* C1: every stored batch is closed iff it holds exactly BATCH_SIZE entries
\* iff its subtotal is present and equals the sum of its entry values; an
\* open batch holds fewer than BATCH_SIZE entries and has no subtotal; no
\* batch holds more than BATCH_SIZE entries.
C1_BatchInvariant ==
    \A k \in DOMAIN batchesByKey :
        \A i \in 1..Len(batchesByKey[k]) : BatchWellFormed(batchesByKey[k][i])

\* An entry of a closed batch has been updated to a value that changes the
\* subtotal, next to a batch reopened by a delete.
C1_Witness ==
    /\ last.op = "updateWeight"
    /\ last.found
    /\ last.hit = "closed"
    /\ \E i \in 1..Len(activeBatches) :
          /\ activeBatches[i].status = "closed"
          /\ activeBatches[i].subtotal > BATCH_SIZE * Unit

\* C2: for each key exactly one batch is open, and it is the last batch of
\* the key's sequence.
C2_OneOpenBatchLast ==
    \A k \in DOMAIN batchesByKey :
        {i \in 1..Len(batchesByKey[k]) : batchesByKey[k][i].status = "open"}
            = {Len(batchesByKey[k])}

\* C3: every key of the ledger maps to a non-empty batch sequence whose last
\* batch is open with fewer than BATCH_SIZE entries, and an append of a
\* value > 0 returns true and leaves its entry as the last entry of the key.
C3_TailOpenState ==
    \A k \in DOMAIN batchesByKey :
        /\ Len(batchesByKey[k]) > 0
        /\ batchesByKey[k][Len(batchesByKey[k])].status = "open"
        /\ Len(batchesByKey[k][Len(batchesByKey[k])].entries) < BATCH_SIZE

C3_AppendStep ==
    (last'.op = "addWeight" /\ last'.valid) =>
        LET before == Flatten(StoredBatches(currentKey))
            after == Flatten(batchesByKey'[currentKey])
        IN  /\ last'.ret = TRUE
            /\ Len(after) = Len(before) + 1
            /\ SubSeq(after, 1, Len(before)) = before
            /\ after[Len(after)].id = nextId
            /\ after[Len(after)].value \in Values

C3_AppendHasDestination ==
    []C3_TailOpenState /\ [][C3_AppendStep]_vars

\* A delete has emptied and dropped the tail batch behind a closed batch, and
\* a fresh open batch has been appended.
C3_Witness ==
    /\ last.op = "deleteWeight"
    /\ last.found
    /\ last.hit = "open"
    /\ Len(StoredBatches(currentKey)) = 2
    /\ StoredBatches(currentKey)[1].status = "closed"
    /\ StoredBatches(currentKey)[2].entries = <<>>

\* C4: after n successful appends to a key without batches, the key holds
\* n \div BATCH_SIZE closed batches, each with BATCH_SIZE entries in append
\* order and the sum of its entries as subtotal, followed by one open batch
\* with the remaining n % BATCH_SIZE entries.
C4_AppendShape ==
    LET bs == activeBatches
        closed == appends \div BATCH_SIZE
    IN  /\ Len(bs) = closed + 1
        /\ \A i \in 1..closed :
              /\ bs[i].status = "closed"
              /\ Len(bs[i].entries) = BATCH_SIZE
              /\ bs[i].subtotal = ValueSum(bs[i].entries)
        /\ bs[closed + 1].status = "open"
        /\ bs[closed + 1].subtotal = NULL
        /\ Len(bs[closed + 1].entries) = appends % BATCH_SIZE
        /\ Len(Flatten(bs)) = appends
        /\ \A j \in 1..appends : Flatten(bs)[j].id = j

\* Ten appends: two closed batches and an empty open tail.
C4_Witness ==
    /\ appends = 2 * BATCH_SIZE
    /\ last.op = "addWeight"
    /\ Len(activeBatches) = 3
    /\ activeBatches[2].status = "closed"

\* C5: addWeight and updateWeight with a value <= 0 return false and change
\* nothing of the ledger.
C5_RefusedStep ==
    (last'.op \in {"addWeight", "updateWeight"} /\ ~last'.valid) =>
        /\ last'.ret = FALSE
        /\ UNCHANGED <<batchesByKey, categories, activeCategoryId,
                       activeEntityId, nextId>>

C5_InvalidValueRefused ==
    [][C5_RefusedStep]_vars

\* An update of an entry stored under the active key to a value <= 0 has
\* been refused.
C5_Witness ==
    /\ last.op = "updateWeight"
    /\ ~last.valid
    /\ last.hit = "open"
    /\ ~last.ret

\* C6: deleteWeight and updateWeight with an id that no entry of the active
\* key has (unknown, or stored under another key) leave every batch of every
\* key unchanged and return false.
C6_NotFoundStep ==
    (last'.op \in {"deleteWeight", "updateWeight"}
        /\ last'.hit \in {"none", "other"}) =>
        /\ batchesByKey' = batchesByKey
        /\ last'.ret = FALSE

C6_NotFoundUnchanged ==
    [][C6_NotFoundStep]_vars

\* A delete has been called with the id of an entry stored under the other
\* entity while the active key has entries of its own.
C6_Witness ==
    /\ last.op = "deleteWeight"
    /\ last.hit = "other"
    /\ ~last.ret
    /\ KeyEntryIds(batchesByKey, currentKey) # {}

\* C7: deleteWeight returns true exactly when an entry with the id was
\* stored under the active key when it was called, and updateWeight exactly
\* when moreover the new value is > 0.
C7_ReturnTellsFound ==
    /\ last.op = "deleteWeight"
          => (last.ret <=> last.hit \in {"open", "closed"})
    /\ last.op = "updateWeight"
          => (last.ret <=> (last.valid /\ last.hit \in {"open", "closed"}))

\* C8: deleting the only entry of the only batch of the active key leaves
\* the key with exactly one batch, open, empty and without subtotal.
C8_DeleteOnlyStep ==
    ( /\ last'.op = "deleteWeight"
      /\ last'.hit = "open"
      /\ Len(StoredBatches(currentKey)) = 1
      /\ Len(StoredBatches(currentKey)[1].entries) = 1 )
    => batchesByKey'[currentKey]
          = <<EmptyOpenBatch(activeEntityId, activeCategoryId)>>

C8_DeleteOnlyEntry ==
    [][C8_DeleteOnlyStep]_vars

\* The first entry ever appended has been deleted.
C8_Witness ==
    /\ last.op = "deleteWeight"
    /\ last.found
    /\ nextId = 2
    /\ StoredBatches(currentKey)
          = <<EmptyOpenBatch(activeEntityId, activeCategoryId)>>

\* C9: deleting an entry of a closed batch leaves that batch with
\* BATCH_SIZE - 1 entries in their former order, open and without subtotal,
\* and leaves the last batch of the key open.
C9_ReopenStep ==
    (last'.op = "deleteWeight" /\ last'.hit = "closed") =>
        LET before == batchesByKey[currentKey]
            after == batchesByKey'[currentKey]
        IN  /\ after[Len(after)].status = "open"
            /\ \E i \in 1..Len(before) :
                  /\ before[i].status = "closed"
                  /\ Len(after) >= i
                  /\ Len(after[i].entries) = BATCH_SIZE - 1
                  /\ \E d \in 1..BATCH_SIZE :
                        after[i].entries
                           = SubSeq(before[i].entries, 1, d - 1)
                                \o SubSeq(before[i].entries, d + 1, BATCH_SIZE)
                  /\ after[i].status = "open"
                  /\ after[i].subtotal = NULL
                  /\ \A j \in 1..Len(before) :
                        j # i => (j <= Len(after) /\ after[j] = before[j])

C9_DeleteReopensBatch ==
    [][C9_ReopenStep]_vars

\* An entry has been deleted from a closed batch that had a non-empty batch
\* behind it.
C9_Witness ==
    /\ last.op = "deleteWeight"
    /\ last.found
    /\ last.hit = "closed"
    /\ Len(StoredBatches(currentKey)) = 2
    /\ Len(StoredBatches(currentKey)[2].entries) > 0

\* C10: getTotalWeight() is the sum of the values of all entries stored
\* under the active key and getTotalEntries() their number (0 and 0 when
\* the key has no stored batches).
C10_Aggregates ==
    /\ getTotalWeight = ValueSum(Flatten(StoredBatches(currentKey)))
    /\ getTotalEntries = Len(Flatten(StoredBatches(currentKey)))
    /\ ~HasKey(batchesByKey, currentKey)
          => (getTotalWeight = 0 /\ getTotalEntries = 0)

\* Entries of different values in two batches, one of them open, after an
\* update.
C10_Witness ==
    /\ last.op = "updateWeight"
    /\ last.found
    /\ Len(activeBatches) = 2
    /\ Len(activeBatches[2].entries) > 0
    /\ getTotalWeight > getTotalEntries * Unit

\* C11: a successful updateWeight(id, v) changes only the value of that
\* entry and, when its batch is closed, that batch's subtotal (the sum of the
\* updated entries); the number of batches, the ids and order of the entries
\* of every batch, every status and every other value are unchanged, as are
\* the batches of every other key.
C11_UpdateStep ==
    (last'.op = "updateWeight" /\ last'.valid
        /\ last'.hit \in {"open", "closed"}) =>
        LET before == batchesByKey[currentKey]
            after == batchesByKey'[currentKey]
        IN  /\ DOMAIN batchesByKey' = DOMAIN batchesByKey
            /\ \A k \in DOMAIN batchesByKey :
                  k # currentKey => batchesByKey'[k] = batchesByKey[k]
            /\ Len(after) = Len(before)
            /\ \E id \in KeyEntryIds(batchesByKey, currentKey), v \in Values :
                  \A i \in 1..Len(before) :
                     /\ after[i].status = before[i].status
                     /\ after[i].categoryId = before[i].categoryId
                     /\ after[i].entityId = before[i].entityId
                     /\ Len(after[i].entries) = Len(before[i].entries)
                     /\ \A j \in 1..Len(before[i].entries) :
                           after[i].entries[j] =
                              IF before[i].entries[j].id = id
                              THEN [before[i].entries[j] EXCEPT !.value = v]
                              ELSE before[i].entries[j]
                     /\ after[i].subtotal =
                           IF before[i].status = "closed"
                           THEN ValueSum(after[i].entries)
                           ELSE NULL

C11_UpdateChangesOnlyValue ==
    [][C11_UpdateStep]_vars

\* An entry of a closed batch has been updated while the key holds a second,
\* non-empty batch, and the closed batch holds entries of both values.
C11_Witness ==
    /\ last.op = "updateWeight"
    /\ last.found
    /\ last.hit = "closed"
    /\ Len(StoredBatches(currentKey)) = 2
    /\ Len(StoredBatches(currentKey)[2].entries) > 0
    /\ \E i \in 1..2 :
          /\ StoredBatches(currentKey)[i].status = "closed"
          /\ {StoredBatches(currentKey)[i].entries[j].value :
                  j \in 1..BATCH_SIZE} = Values

\* The sum of the values of the entries stored under entity:category.
StoredWeight(entityId, categoryId) ==
    ValueSum(Flatten(StoredBatches(compositeKey(entityId, categoryId))))

\* C12: when the settled entity holds a category with total weight 100 at
\* price 2.00 and a category with total weight 50 at price 3.00, with
\* freightRate 0.50 and sackValue 20, the summary has grossTotal 350.00,
\* totalWeight 150, freightTotal 75 and finalAmount 295.00, however the
\* weights are split into entries and batches.
C12_Scenario ==
    ( /\ currentView = "settlement"
      /\ Len(categories) = 2
      /\ \E a, b \in CategoryIdSet(categories) :
            /\ a # b
            /\ StoredWeight(activeEntityId, a) = 100 * Unit
            /\ StoredWeight(activeEntityId, b) = 50 * Unit
            /\ OrZero(settlementData.prices, a) = 2 * Unit
            /\ OrZero(settlementData.prices, b) = 3 * Unit
      /\ settlementData.freightRate = Unit \div 2
      /\ settlementData.sackValue = 20 * Unit )
    => /\ summary.grossTotal = 350 * Unit
       /\ summary.totalWeight = 150 * Unit
       /\ summary.freightTotal = 75 * Unit
       /\ summary.finalAmount = 295 * Unit
       /\ summary.sackValue = 20 * Unit
       /\ Len(summary.categoryBreakdown) = 2

\* The scenario with the 100 kg in six entries, a closed batch and an open
\* one, and the 50 kg in five entries of a closed batch.
C12_Witness ==
    /\ currentView = "settlement"
    /\ Len(categories) = 2
    /\ StoredWeight(activeEntityId, categories[1].id) = 100 * Unit
    /\ StoredWeight(activeEntityId, categories[2].id) = 50 * Unit
    /\ Len(StoredBatches(compositeKey(activeEntityId, categories[1].id))) = 2
    /\ Len(Flatten(StoredBatches(compositeKey(activeEntityId,
                                              categories[1].id)))) = 6
    /\ Len(Flatten(StoredBatches(compositeKey(activeEntityId,
                                              categories[2].id)))) = 5
    /\ OrZero(settlementData.prices, categories[1].id) = 2 * Unit
    /\ OrZero(settlementData.prices, categories[2].id) = 3 * Unit
    /\ settlementData.freightRate = Unit \div 2
    /\ settlementData.sackValue = 20 * Unit
    /\ summary.finalAmount = 295 * Unit

\* Every category has zero aggregated weight for the settled entity: no
\* entries, or only empty batches.
NoWeight ==
    \A i \in 1..Len(categories) :
        StoredWeight(activeEntityId, categories[i].id) = 0

ZeroSummary ==
    /\ ~hasData
    /\ summary.categoryBreakdown = <<>>
    /\ summary.grossTotal = 0
    /\ summary.totalWeight = 0
    /\ summary.freightTotal = 0

\* C13 as stated: when every category has zero aggregated weight for the
\* settled entity, hasData is false, categoryBreakdown is empty, grossTotal,
\* totalWeight and freightTotal are 0 and finalAmount equals
\* roundToTwo(sackValue), for any prices and freightRate.
C13_ZeroWeight ==
    (currentView = "settlement" /\ NoWeight) =>
        /\ ZeroSummary
        /\ summary.finalAmount = roundToTwo(settlementData.sackValue)

\* C13 as amended: ... and finalAmount equals roundToTwo of the sackValue
\* rounded to four decimals (safeAdd(0, sackValue)), which is
\* roundToTwo(sackValue) when sackValue has at most four decimals.
C13_ZeroWeightAmended ==
    (currentView = "settlement" /\ NoWeight) =>
        /\ ZeroSummary
        /\ summary.finalAmount =
              roundToTwo(fromInt(toInt(settlementData.sackValue)))
        /\ fromInt(toInt(settlementData.sackValue)) = settlementData.sackValue
              => summary.finalAmount = roundToTwo(settlementData.sackValue)

\* The settled entity holds only an empty batch, the other entity holds an
\* entry, and a price, the freight rate and a sack value of 0.005 are set.
C13_Witness ==
    /\ currentView = "settlement"
    /\ NoWeight
    /\ HasKey(batchesByKey, currentKey)
    /\ \E k \in DOMAIN batchesByKey :
          k[1] # activeEntityId /\ Flatten(batchesByKey[k]) # <<>>
    /\ DOMAIN settlementData.prices # {}
    /\ settlementData.freightRate > 0
    /\ settlementData.sackValue = 500
    /\ summary.finalAmount = Unit \div 100

\* The safeAdd accumulation of the subtotals of the lines shown.
RECURSIVE SumOfLines(_, _)
SumOfLines(lines, i) ==
    IF i = 0 THEN 0 ELSE safeAdd(SumOfLines(lines, i - 1), lines[i].subtotal)

\* C14: each breakdown line's subtotal equals
\* roundToTwo(safeMult(weight, unitPrice)) (unitPrice 0 when unset), and the
\* summary's grossTotal is the safeAdd accumulation of those rounded line
\* subtotals: grossTotal equals the sum of the subtotals shown.
C14_GrossIsSumOfLines ==
    currentView = "settlement" =>
        LET lines == summary.categoryBreakdown
        IN  /\ \A i \in 1..Len(lines) :
                  /\ lines[i].unitPrice =
                        OrZero(settlementData.prices, lines[i].categoryId)
                  /\ lines[i].subtotal =
                        roundToTwo(safeMult(lines[i].totalWeight,
                                            lines[i].unitPrice))
            /\ summary.grossTotal = SumOfLines(lines, Len(lines))

\* C15: freightTotal equals safeMult(totalWeight, freightRate) without
\* further rounding, and finalAmount equals
\* roundToTwo(grossTotal - freightTotal + sackValue) evaluated on the
\* grossTotal, freightTotal and sackValue fields of the same summary.
C15_FinalFromFields ==
    currentView = "settlement" =>
        /\ summary.freightTotal =
              safeMult(summary.totalWeight, settlementData.freightRate)
        /\ summary.sackValue = settlementData.sackValue
        /\ summary.finalAmount =
              roundToTwo(safeAdd(safeSub(summary.grossTotal,
                                         summary.freightTotal),
                                 summary.sackValue))

NonNegativeData(data) ==
    /\ \A k \in DOMAIN data.prices : data.prices[k] >= 0
    /\ data.freightRate >= 0
    /\ data.sackValue >= 0

SamePricesExcept(categoryId) ==
    /\ DOMAIN settlementData'.prices =
          (DOMAIN settlementData.prices) \cup {categoryId}
    /\ \A k \in DOMAIN settlementData.prices :
          k # categoryId => settlementData'.prices[k] = settlementData.prices[k]

C16_SetterStep ==
    LET stored == IF last'.number < 0 THEN 0 ELSE last'.number
    IN  /\ last'.op = "setPrice" =>
              /\ settlementData'.prices[last'.categoryId] = stored
              /\ SamePricesExcept(last'.categoryId)
              /\ settlementData'.freightRate = settlementData.freightRate
              /\ settlementData'.sackValue = settlementData.sackValue
        /\ last'.op = "setFreightRate" =>
              /\ settlementData'.freightRate = stored
              /\ settlementData'.prices = settlementData.prices
              /\ settlementData'.sackValue = settlementData.sackValue
        /\ last'.op = "setSackValue" =>
              /\ settlementData'.sackValue = stored
              /\ settlementData'.prices = settlementData.prices
              /\ settlementData'.freightRate = settlementData.freightRate

\* C16: setPrice, setFreightRate and setSackValue store max(0, input);
\* starting from the default SettlementData, after any sequence of setter and
\* resetSettlement calls every stored price, the freightRate and the
\* sackValue are >= 0, and a setter changes only the field (or the single
\* category price) it names.
C16_SettersClamp ==
    /\ [](/\ NonNegativeData(settlementData)
          /\ \A e \in DOMAIN settlementStorage :
                NonNegativeData(settlementStorage[e]))
    /\ [][C16_SetterStep]_vars

\* A negative price has just been stored as 0 for one category while the
\* other category's price, the freight rate and the sack value stay set.
C16_Witness ==
    /\ last.op = "setPrice"
    /\ last.number < 0
    /\ settlementData.prices[last.categoryId] = 0
    /\ \E k \in DOMAIN settlementData.prices : settlementData.prices[k] > 0
    /\ settlementData.freightRate > 0
    /\ settlementData.sackValue > 0
    /\ settlementStorage[activeEntityId] = settlementData

RECURSIVE LineWeightSum(_, _)
LineWeightSum(lines, i) ==
    IF i = 0 THEN 0 ELSE LineWeightSum(lines, i - 1) + lines[i].totalWeight

\* The entry values under entity:category, each rounded to four decimals
\* (toInt), summed and scaled back.
RECURSIVE RoundedSum(_)
RoundedSum(entries) ==
    IF entries = <<>> THEN 0
    ELSE toInt(Head(entries).value) + RoundedSum(Tail(entries))

RoundedWeight(entityId, categoryId) ==
    fromInt(RoundedSum(Flatten(StoredBatches(compositeKey(entityId,
                                                          categoryId)))))

BreakdownOf(Weight(_, _)) ==
    LET lines == summary.categoryBreakdown
        weighed == SelectSeq(categories,
                             LAMBDA c : Weight(activeEntityId, c.id) > 0)
    IN  /\ Len(lines) = Len(weighed)
        /\ \A i \in 1..Len(lines) : lines[i].categoryId = weighed[i].id
        /\ summary.totalWeight = LineWeightSum(lines, Len(lines))
        /\ hasData <=> summary.totalWeight > 0

\* C17 as stated: categoryBreakdown contains exactly one line for each
\* category of the list whose aggregated weight (the sum of all entry values
\* in all batches under entity:category for the settled entity) is > 0, in
\* category-list order, and no line for zero-weight categories or for other
\* entities' keys; totalWeight is the sum of the line weights and hasData is
\* true iff totalWeight > 0.
C17_Breakdown ==
    currentView = "settlement" => BreakdownOf(StoredWeight)

\* C17 as amended: the aggregated weight is the safeSum of the entry values,
\* each value rounded to four decimals, and it is the weight of the line.
C17_BreakdownAmended ==
    currentView = "settlement" =>
        /\ BreakdownOf(RoundedWeight)
        /\ \A i \in 1..Len(summary.categoryBreakdown) :
              summary.categoryBreakdown[i].totalWeight =
                  RoundedWeight(activeEntityId,
                                summary.categoryBreakdown[i].categoryId)

\* Two lines in list order for the settled entity, whose default category
\* holds one entry, while the other entity holds an entry of its own under
\* the default category.
C17_Witness ==
    /\ currentView = "settlement"
    /\ Len(categories) = 2
    /\ Len(summary.categoryBreakdown) = 2
    /\ summary.categoryBreakdown[1].categoryId = categories[1].id
    /\ summary.categoryBreakdown[2].categoryId = categories[2].id
    /\ summary.categoryBreakdown[1].totalWeight = Unit \div 4
    /\ \E k \in DOMAIN batchesByKey :
          /\ k[1] # activeEntityId
          /\ k[2] = categories[1].id
          /\ ValueSum(Flatten(batchesByKey[k])) >= Unit \div 4
    /\ hasData

\* A category whose only entry is 0.00004 kg has no line, next to a category
\* that has one.
C17_WitnessSmall ==
    /\ currentView = "settlement"
    /\ Len(summary.categoryBreakdown) = 1
    /\ \E i \in 1..Len(categories) :
          /\ StoredWeight(activeEntityId, categories[i].id) > 0
          /\ RoundedWeight(activeEntityId, categories[i].id) = 0

SameIgnoringCase(a, b) ==
    toLowerCase(a) = toLowerCase(b)

DistinctNames ==
    \A i, j \in 1..Len(categories) :
        i # j => ~SameIgnoringCase(categories[i].name, categories[j].name)

C19_AddStep ==
    ( /\ last'.op = "addCategory"
      /\ \/ Trim(last'.name) = <<>>
         \/ \E i \in 1..Len(categories) :
               SameIgnoringCase(categories[i].name, Trim(last'.name)) )
    => /\ ~last'.ret
       /\ categories' = categories
       /\ activeCategoryId' = activeCategoryId

\* C19: addCategory(name) with a name that is empty after trimming, or that
\* equals an existing category name ignoring case, returns none and changes
\* neither the category list nor the active category; after any sequence of
\* addCategory, renameCategory and deleteCategory the category names are
\* pairwise distinct ignoring case.
C19_NamesDistinct ==
    /\ []DistinctNames
    /\ [][C19_AddStep]_vars

\* addCategory has just refused a name that is spelled differently from
\* every stored name but equals one of them ignoring case, after a rename.
C19_Witness ==
    /\ last.op = "addCategory"
    /\ ~last.ret
    /\ Len(categories) >= 2
    /\ \A i \in 1..Len(categories) : categories[i].name # Trim(last.name)
    /\ \E i \in 1..Len(categories) :
          SameIgnoringCase(categories[i].name, Trim(last.name))
    /\ \E i \in 1..Len(categories) : categories[i].name = <<"B">>

\* newName differs only by case from name.
DiffersOnlyByCase(newName, name) ==
    newName # name /\ SameIgnoringCase(newName, name)

RenameRejected ==
    /\ ~last'.ret
    /\ categories' = categories

RenameSucceeded ==
    /\ last'.ret
    /\ Len(categories') = Len(categories)
    /\ \A i \in 1..Len(categories) :
          categories[i].id # last'.categoryId =>
              categories'[i] = categories[i]

RenameOwnName ==
    ( /\ last'.op = "renameCategory"
      /\ \E i \in 1..Len(categories) :
            /\ categories[i].id = last'.categoryId
            /\ categories[i].name = last'.name )
    => RenameSucceeded

C20_RenameStepStated ==
    /\ ( /\ last'.op = "renameCategory"
         /\ \E i \in 1..Len(categories) :
               DiffersOnlyByCase(last'.name, categories[i].name) )
       => RenameRejected
    /\ RenameOwnName

\* C20 as stated: renameCategory(c, newName) is rejected (returns false,
\* category list unchanged) when newName differs only by case from the name
\* of an existing category, and succeeds (returns true, no other category
\* changed) when newName is identical to c's own current name.
C20_Rename ==
    [][C20_RenameStepStated]_vars

C20_RenameStepAmended ==
    /\ ( /\ last'.op = "renameCategory"
         /\ \E i \in 1..Len(categories) :
               /\ categories[i].id # last'.categoryId
               /\ SameIgnoringCase(Trim(last'.name), categories[i].name) )
       => RenameRejected
    /\ RenameOwnName
    /\ ( /\ last'.op = "renameCategory"
         /\ \E i \in 1..Len(categories) :
               /\ categories[i].id = last'.categoryId
               /\ DiffersOnlyByCase(last'.name, categories[i].name) )
       => /\ RenameSucceeded
          /\ \E i \in 1..Len(categories') :
                /\ categories'[i].id = last'.categoryId
                /\ categories'[i].name = last'.name

\* C20 as amended: the rename is rejected when newName equals, ignoring
\* case, the name of an existing category other than c; it succeeds when
\* newName is identical to c's own current name, and also when it differs
\* from c's own name only by case, c then taking the new spelling.
C20_RenameAmended ==
    [][C20_RenameStepAmended]_vars

\* A rename to the name of another category in a different case has just
\* been rejected.
C20_Witness ==
    /\ last.op = "renameCategory"
    /\ ~last.ret
    /\ \E i \in 1..Len(categories) :
          /\ categories[i].id # last.categoryId
          /\ DiffersOnlyByCase(last.name, categories[i].name)
    /\ last.categoryId \in CategoryIdSet(categories)

\* A rename of a category to its own current name has just succeeded next
\* to another category.
C20_WitnessOwnName ==
    /\ last.op = "renameCategory"
    /\ last.ret
    /\ Len(categories) >= 2
    /\ \E i \in 1..Len(categories) :
          /\ categories[i].id = last.categoryId
          /\ categories[i].name = last.name

SettlementOps ==
    {"setPrice", "setFreightRate", "setSackValue", "resetSettlement"}

KnownEntityIds ==
    {DEFAULT_ENTITY, WAREHOUSE_ENTITY}
        \cup {GeneratedEntityIds[i] : i \in 1..Len(GeneratedEntityIds)}

C18_Step ==
    \A e \in KnownEntityIds :
        loadSettlement(settlementStorage', e) # loadSettlement(settlementStorage, e)
            => /\ last'.op \in SettlementOps
               /\ activeEntityId = e
               /\ activeEntityId' = e

\* C18: SettlementData is per entity: the data stored for an entity B
\* changes only through setPrice/setFreightRate/setSackValue/resetSettlement
\* calls made while B is the settled entity; selecting a different entity
\* neither changes B's stored data nor causes A's data to be saved for B.
C18_PerEntity ==
    [][C18_Step]_vars

C21_DeleteStep ==
    ( /\ last'.op = "deleteCategory"
      /\ \/ last'.categoryId = DEFAULT_CATEGORY.id
         \/ Len(categories) = 1 )
    => /\ ~last'.ret
       /\ categories' = categories
       /\ batchesByKey' = batchesByKey
       /\ activeCategoryId' = activeCategoryId

\* C21: deleteCategory refuses (returns false, with category list, ledger
\* and active category unchanged) when the target is the default category or
\* when only one category exists; in every reachable state the category list
\* is non-empty and contains the default category.
C21_GuardedDeletion ==
    /\ [](/\ Len(categories) >= 1
          /\ DEFAULT_CATEGORY.id \in CategoryIdSet(categories))
    /\ [][C21_DeleteStep]_vars

\* The deletion of the default category has just been refused next to a
\* second category, with weights stored under both.
C21_Witness ==
    /\ last.op = "deleteCategory"
    /\ ~last.ret
    /\ last.categoryId = DEFAULT_CATEGORY.id
    /\ Len(categories) = 2
    /\ \A i \in 1..2 :
          \E k \in DOMAIN batchesByKey :
              k[2] = categories[i].id /\ Flatten(batchesByKey[k]) # <<>>

C22_CascadeStep ==
    (last'.op = "deleteCategory" /\ last'.ret)
    => /\ \A k \in DOMAIN batchesByKey' : k[2] # last'.categoryId
       /\ last'.categoryId \notin CategoryIdSet(categories')
       /\ DOMAIN batchesByKey' \subseteq DOMAIN batchesByKey
       /\ \A k \in DOMAIN batchesByKey :
             k[2] # last'.categoryId =>
                 /\ k \in DOMAIN batchesByKey'
                 /\ batchesByKey'[k] = batchesByKey[k]

\* C22: after a successful deleteCategory(c) the ledger contains no key
\* whose category is c for any entity, c is absent from the category list,
\* and the batch sequences stored under keys of every other category are
\* unchanged.
C22_DeleteCascades ==
    [][C22_CascadeStep]_vars

\* A deletion has just removed the keys of both entities for one category
\* and left a key with an entry under the default category.
C22_Witness ==
    /\ last.op = "deleteCategory"
    /\ last.ret
    /\ last.removed = 2
    /\ Len(categories) = 1
    /\ \E k \in DOMAIN batchesByKey : Flatten(batchesByKey[k]) # <<>>

\* The index in activeBatches of the batch addWeight appends to: the last
\* one (types.ts 313-314).
AppendIndex ==
    Len(activeBatches)

\* C23: getCurrentBatch() returns the open batch of the active key, and in
\* every state reachable by append, deleteEntry and updateEntry that batch is
\* the one to which the next successful append adds its entry (the open tail
\* batch); it never returns none.
C23_CurrentBatchIsAppendTarget ==
    /\ \E i \in 1..Len(activeBatches) :
          /\ activeBatches[i].status = "open"
          /\ getCurrentBatch = activeBatches[i]
    /\ activeBatches[AppendIndex].status = "open"
    /\ \A i \in 1..Len(activeBatches) :
          activeBatches[i].status = "open" => i = AppendIndex

\* n has at most d decimals.
FourDecimals(n) ==
    n % (Unit \div PRECISION_FACTOR) = 0

TwoDecimals(n) ==
    n % (Unit \div 100) = 0

\* The product of two numbers of at most two decimals: hundredths times
\* hundredths are ten-thousandths.
ExactProduct(a, b) ==
    (a \div (Unit \div 100)) * (b \div (Unit \div 100))
        * (Unit \div PRECISION_FACTOR)

\* C24: safeAdd(0.1, 0.2) = 0.3 and safeMult(10.55, 1.5) = 15.825 exactly;
\* safeAdd and safeSub of operands with at most 4 decimals return the exact
\* sum and difference, and safeMult of operands with at most 2 decimals
\* returns the exact product.
C24_SafeMathExact ==
    /\ (last.op = "safeAdd" /\ FourDecimals(last.a) /\ FourDecimals(last.b))
           => last.result = last.a + last.b
    /\ (last.op = "safeSub" /\ FourDecimals(last.a) /\ FourDecimals(last.b))
           => last.result = last.a - last.b
    /\ (last.op = "safeMult" /\ TwoDecimals(last.a) /\ TwoDecimals(last.b))
           => last.result = ExactProduct(last.a, last.b)
    /\ (last.op = "safeAdd" /\ last.a = Unit \div 10
                            /\ last.b = 2 * (Unit \div 10))
           => last.result = 3 * (Unit \div 10)
    /\ (last.op = "safeMult" /\ last.a = 1055000 /\ last.b = 150000)
           => last.result = 1582500

\* safeMult(10.55, 1.5) has just returned 15.825.
C24_Witness ==
    /\ last.op = "safeMult"
    /\ last.a = 1055000
    /\ last.b = 150000
    /\ last.result = 1582500

\* x rounded to two decimals, a tie resolved away from zero.
HalfAwayFromZero(x) ==
    IF x >= 0
    THEN ((x + 500) \div 1000) * 1000
    ELSE 0 - (((0 - x) + 500) \div 1000) * 1000

\* C25: roundToTwo(x) returns x rounded to 2 decimals with exact ties
\* resolved away from zero, for negative as well as positive x (2.345 gives
\* 2.35 and -2.345 gives -2.35).
C25_TiesAwayFromZero ==
    last.op = "roundToTwo" => last.result = HalfAwayFromZero(last.a)

C26_Step ==
    /\ last'.op = "addWeight" =>
          /\ last'.ret
          /\ batchesByKey' =
                addWeightUpdater(batchesByKey, activeEntityId,
                                 activeCategoryId, Unit, nextId)
          /\ categories' = categories
    /\ (last'.op = "addCategory" /\ Len(categories) = 1) =>
          /\ last'.ret
          /\ Len(categories') = 2
          /\ batchesByKey' = batchesByKey
    /\ last'.op = "navigate" =>
          /\ categories' = categories
          /\ batchesByKey' = batchesByKey
    /\ ledgerStorage' # ledgerStorage =>
          \/ categories' # categories
          \/ batchesByKey' # batchesByKey
          \/ last'.op = "navigate"

\* C26: when a persistence write fails, the failure is caught: the operation
\* that triggered it still completes with its normal result, the in-memory
\* ledger is exactly what it would be had the write succeeded, no retry is
\* scheduled, and later operations continue from the in-memory state.
C26_WriteFailureHarmless ==
    [][C26_Step]_vars

EntityIdsOf(m) ==
    {entitiesByMode[m][i].id : i \in 1..Len(entitiesByMode[m])}

DefaultEntityOf(m) ==
    IF m = "DESCARGA" THEN DEFAULT_ENTITY ELSE WAREHOUSE_ENTITY

C27_RemoveStep ==
    ( /\ last'.op = "removeEntity"
      /\ \/ last'.entityId \in {DEFAULT_ENTITY, WAREHOUSE_ENTITY}
         \/ Len(entitiesByMode[mode]) = 1 )
    => /\ ~last'.ret
       /\ entitiesByMode' = entitiesByMode
       /\ activeEntityByMode' = activeEntityByMode
       /\ activeEntityId' = activeEntityId

\* C27: removeEntity refuses (returns false, entity list and active entity
\* unchanged) when the target is a default entity or when the current mode's
\* list holds a single entity; after any sequence of addEntity, removeEntity,
\* renameEntity and setMode each mode's entity list is non-empty and still
\* contains its default entity.
C27_GuardedRemoval ==
    /\ [](\A m \in Modes :
             /\ Len(entitiesByMode[m]) >= 1
             /\ DefaultEntityOf(m) \in EntityIdsOf(m))
    /\ [][C27_RemoveStep]_vars

\* The removal of the default provider has just been refused while its
\* mode lists a second entity and the default provider carries a new name.
C27_Witness ==
    /\ last.op = "removeEntity"
    /\ ~last.ret
    /\ last.entityId = DEFAULT_ENTITY
    /\ mode = "DESCARGA"
    /\ Len(entitiesByMode[mode]) >= 2
    /\ \E i \in 1..Len(entitiesByMode[mode]) :
          /\ entitiesByMode[mode][i].id = DEFAULT_ENTITY
          /\ entitiesByMode[mode][i].name # DEFAULT_ENTITY_NAME

C28_ActiveStep ==
    /\ ( /\ last'.op = "switchCategory"
         /\ last'.categoryId \notin CategoryIdSet(categories) )
       => activeCategoryId' = activeCategoryId
    /\ (last'.op = "addCategory" /\ last'.ret)
       => /\ Len(categories') = Len(categories) + 1
          /\ activeCategoryId' = categories'[Len(categories')].id
    /\ ( /\ last'.op = "deleteCategory"
         /\ last'.ret
         /\ last'.categoryId = activeCategoryId )
       => activeCategoryId' = DEFAULT_CATEGORY.id

\* C28: after any sequence of addCategory, deleteCategory, renameCategory
\* and switchCategory the active category id refers to a category present in
\* the category list: switchCategory to an unknown id is ignored, addCategory
\* makes the new category active, and deleting the active category makes the
\* default category active.
C28_ActiveCategoryListed ==
    /\ [](activeCategoryId \in CategoryIdSet(categories))
    /\ [][C28_ActiveStep]_vars

\* A switch to an unknown id has just been ignored while a category other
\* than the default one is active.
C28_Witness ==
    /\ last.op = "switchCategory"
    /\ last.categoryId \notin CategoryIdSet(categories)
    /\ activeCategoryId # DEFAULT_CATEGORY.id
    /\ activeCategoryId \in CategoryIdSet(categories)
    /\ Len(categories) >= 2

LedgerOps ==
    {"addWeight", "deleteWeight", "updateWeight", "clearActiveCategory"}

C29_KeyStep ==
    /\ last'.op \in LedgerOps =>
          /\ (DOMAIN batchesByKey') \ {currentKey} =
                (DOMAIN batchesByKey) \ {currentKey}
          /\ \A k \in (DOMAIN batchesByKey) \ {currentKey} :
                batchesByKey'[k] = batchesByKey[k]
    /\ last'.op = "clearActiveCategory" =>
          /\ HasKey(batchesByKey', currentKey)
          /\ Len(batchesByKey'[currentKey]) = 1
          /\ batchesByKey'[currentKey][1].entries = <<>>
          /\ batchesByKey'[currentKey][1].status = "open"
          /\ batchesByKey'[currentKey][1].subtotal = NULL

\* C29: append, deleteEntry, updateEntry and clearActiveCategory modify only
\* the batch sequence stored under the active key entityId:categoryId; the
\* batch sequences of every other key (other entities, other categories) are
\* unchanged by them, and clearActiveCategory leaves the active key with
\* exactly one empty open batch.
C29_OnlyActiveKey ==
    [][C29_KeyStep]_vars

\* The active key has just been cleared while a key of the other entity and
\* a key of another category of the same entity hold entries.
C29_Witness ==
    /\ last.op = "clearActiveCategory"
    /\ HasKey(batchesByKey, currentKey)
    /\ Flatten(batchesByKey[currentKey]) = <<>>
    /\ \E k \in DOMAIN batchesByKey :
          k[1] # activeEntityId /\ Flatten(batchesByKey[k]) # <<>>
    /\ \E k \in DOMAIN batchesByKey :
          /\ k[1] = activeEntityId
          /\ k[2] # activeCategoryId
          /\ Flatten(batchesByKey[k]) # <<>>

BatchesOf(m, key) ==
    IF HasKey(m, key) THEN m[key] ELSE <<>>

EntriesOf(m, key) ==
    Flatten(BatchesOf(m, key))

IdsOf(entries) ==
    [i \in 1..Len(entries) |-> entries[i].id]

IdSetOf(entries) ==
    {entries[i].id : i \in 1..Len(entries)}

\* The batches as sets of entry ids, restricted to ids, empty ones left out.
BatchGroups(batches, ids) ==
    {IdSetOf(batches[i].entries) \cap ids : i \in 1..Len(batches)} \ {{}}

\* Two entries share a batch after the step exactly when they did before.
SameBatches(before, after, ids) ==
    BatchGroups(before, ids) = BatchGroups(after, ids)

\* Ids are generated in increasing order, so append order is id order.
C30_AppendOrder ==
    \A k \in DOMAIN batchesByKey :
        LET f == Flatten(batchesByKey[k])
        IN  /\ \A i, j \in 1..Len(f) : i < j => f[i].id < f[j].id
            /\ \A i \in 1..Len(f) :
                  /\ f[i].id < nextId
                  /\ compositeKey(f[i].entityId, f[i].categoryId) = k

C30_OrderStep ==
    LET old == EntriesOf(batchesByKey, currentKey)
        new == EntriesOf(batchesByKey', currentKey)
        kept == IdSetOf(old) \cap IdSetOf(new)
    IN  /\ last'.op \in LedgerOps =>
              SameBatches(BatchesOf(batchesByKey, currentKey),
                          BatchesOf(batchesByKey', currentKey), kept)
        /\ (last'.op = "addWeight" /\ last'.ret) =>
              /\ Len(new) = Len(old) + 1
              /\ SubSeq(new, 1, Len(old)) = old
              /\ new[Len(new)].id = nextId
        /\ (last'.op = "addWeight" /\ ~last'.ret) => new = old
        /\ (last'.op = "deleteWeight" /\ last'.found) =>
              /\ Len(new) = Len(old) - 1
              /\ \E id \in IdSetOf(old) :
                    new = SelectSeq(old, LAMBDA e : e.id # id)
        /\ (last'.op = "deleteWeight" /\ ~last'.found) => new = old
        /\ last'.op = "updateWeight" =>
              /\ IdsOf(new) = IdsOf(old)
              /\ Len(BatchesOf(batchesByKey', currentKey)) = Len(BatchesOf(batchesByKey, currentKey))
              /\ \A i \in 1..Len(BatchesOf(batchesByKey, currentKey)) :
                    IdsOf(BatchesOf(batchesByKey', currentKey)[i].entries) =
                       IdsOf(batchesByKey[currentKey][i].entries)
        /\ last'.op = "clearActiveCategory" => new = <<>>

\* C30: for each key the concatenation of the entries of its batches, in
\* batch order, is the sequence of the appended entries in append order
\* without the deleted ones: every live entry is in exactly one batch, an
\* append puts the new entry last, deleteEntry and updateEntry neither
\* reorder entries nor move them to another batch, and the entry count is
\* that of the appends minus that of the deletes that removed an entry since
\* the key was last cleared.
C30_EntriesInAppendOrder ==
    /\ []C30_AppendOrder
    /\ [][C30_OrderStep]_vars

\* An append has just put its entry last, in the second batch, after a
\* delete had taken an entry out of the first batch of five.
C30_Witness ==
    /\ last.op = "addWeight"
    /\ last.ret
    /\ HasKey(batchesByKey, currentKey)
    /\ Len(batchesByKey[currentKey]) = 2
    /\ Len(batchesByKey[currentKey][1].entries) = 4
    /\ IdsOf(batchesByKey[currentKey][2].entries) = <<nextId - 1>>
    /\ Len(EntriesOf(batchesByKey, currentKey)) < nextId - 1

NonEmptyBatches(batches) ==
    SelectSeq(batches, LAMBDA b : Len(b.entries) > 0)

C31_OnlyTailEmpty ==
    \A k \in DOMAIN batchesByKey :
        /\ Len(batchesByKey[k]) >= 1
        /\ \A i \in 1..(Len(batchesByKey[k]) - 1) :
              Len(batchesByKey[k][i].entries) >= 1

\* A delete that takes the only entry of a batch leaves the other batches
\* that hold entries, in their order, and nothing else that holds entries.
C31_DropStep ==
    LET before == BatchesOf(batchesByKey, currentKey)
        after == BatchesOf(batchesByKey', currentKey)
    IN  (last'.op = "deleteWeight" /\ last'.found) =>
            \A i \in 1..Len(before) :
                (Len(before[i].entries) = 1
                    /\ before[i].entries[1].id
                          \notin IdSetOf(Flatten(after)))
                => /\ NonEmptyBatches(after) =
                        NonEmptyBatches(SubSeq(before, 1, i - 1))
                           \o NonEmptyBatches(SubSeq(before, i + 1, Len(before)))
                   /\ Len(after) >= 1

\* C31: in every reachable ledger state only the last batch of a key may be
\* empty: a batch emptied by deleteEntry is dropped from the sequence, every
\* batch before the last holds at least one entry, and the sequence of a
\* key is never empty.
C31_EmptiedBatchDropped ==
    /\ []C31_OnlyTailEmpty
    /\ [][C31_DropStep]_vars

\* A delete has just taken the only entry of the second batch while the
\* first batch held four: the emptied batch is gone.
C31_Witness ==
    /\ last.op = "deleteWeight"
    /\ last.found
    /\ nextId = 7
    /\ HasKey(batchesByKey, currentKey)
    /\ Len(batchesByKey[currentKey]) = 1
    /\ Len(batchesByKey[currentKey][1].entries) = 4

\* The summary useSettlement computes for an entity from the ledger.
SummaryFor(entityId) ==
    summaryOf(categories, weightsByCategory(batchesByKey, entityId),
              settlementData)

\* C32: after any sequence of ledger and category operations on any
\* entities, the settlement summary's totalWeight for an entity equals
\* getEntityStats(entity).weight, and getGrandTotal().weight for the active
\* entity: no entry of the entity is left out of the settlement or counted
\* twice.
C32_SettlementTotalIsLedgerTotal ==
    /\ \A e \in EntityIds :
          SummaryFor(e).totalWeight = getEntityStats(e).weight
    /\ summary.totalWeight = getGrandTotal.weight

PaletteIndex(color) ==
    CHOOSE i \in 1..Len(CATEGORY_COLORS) : CATEGORY_COLORS[i] = color

C33_ColorStep ==
    (last'.op = "addCategory" /\ last'.ret) =>
        LET used == {categories[i].color : i \in 1..Len(categories)}
            color == categories'[Len(categories')].color
            palette == {CATEGORY_COLORS[i] : i \in 1..Len(CATEGORY_COLORS)}
        IN  /\ color \in palette
            /\ (palette \ used # {}) =>
                  /\ color \notin used
                  /\ \A j \in 1..(PaletteIndex(color) - 1) :
                        CATEGORY_COLORS[j] \in used
            /\ (palette \ used = {}) =>
                  PaletteIndex(color) =
                     (Len(categories) % Len(CATEGORY_COLORS)) + 1

\* C33: addCategory gives the new category the first palette color that no
\* existing category uses whenever there is one, so that its color differs
\* from that of every existing category, and palette[n mod paletteLength],
\* n being the number of existing categories, once every palette color is
\* in use.
C33_NextColor ==
    [][C33_ColorStep]_vars

\* A category has just been added while the eight categories before it used
\* the eight palette colors: it has the color of index 8 mod 8.
C33_Witness ==
    /\ last.op = "addCategory"
    /\ last.ret
    /\ Len(categories) = Len(CATEGORY_COLORS) + 1
    /\ categories[Len(categories)].color = CATEGORY_COLORS[1]
    /\ {categories[i].color : i \in 1..Len(CATEGORY_COLORS)} =
          {CATEGORY_COLORS[i] : i \in 1..Len(CATEGORY_COLORS)}

\* A category has just been added after a deletion freed a color in the
\* middle of the palette, and has taken that color.
C33_WitnessFreed ==
    /\ last.op = "addCategory"
    /\ last.ret
    /\ Len(categories) >= 3
    /\ PaletteIndex(categories[Len(categories)].color) <
          PaletteIndex(categories[Len(categories) - 1].color)

\* x rounded to two decimals, a tie resolved to the even hundredth.
HalfToEven(x) ==
    LET q == x \div 1000
        r == x % 1000
    IN  IF r < 500 THEN q * 1000
        ELSE IF r > 500 THEN (q + 1) * 1000
        ELSE IF q % 2 = 0 THEN q * 1000
        ELSE (q + 1) * 1000

\* C34: roundToTwo uses banker's rounding (round half to even):
\* roundToTwo(2.345) = 2.34 and roundToTwo(2.355) = 2.36.
C34_BankersRounding ==
    last.op = "roundToTwo" => last.result = HalfToEven(last.a)

ValuesOf(entries) ==
    [i \in 1..Len(entries) |-> entries[i].value]

Reversed(values) ==
    [i \in 1..Len(values) |-> values[Len(values) + 1 - i]]

C35_Laws ==
    \A a, b, c \in FourDecimalInputs :
        /\ safeAdd(a, b) = safeAdd(b, a)
        /\ safeAdd(safeAdd(a, b), c) = safeAdd(a, safeAdd(b, c))
        /\ safeSub(safeAdd(a, b), b) = a

C35_Grouping ==
    \A k \in DOMAIN batchesByKey :
        LET values == ValuesOf(Flatten(batchesByKey[k]))
            settled == categoryWeight(batchesByKey[k], Len(batchesByKey[k]))
        IN  /\ settled = safeSum(values)
            /\ settled = safeSum(Reversed(values))

\* C35: for operands with at most four decimals safeAdd is commutative and
\* associative and safeSub(safeAdd(a, b), b) = a, so that safeSum does not
\* depend on order or grouping: the safeSum of each batch, combined over the
\* batches with safeAdd as the settlement does, is the safeSum over all the
\* entries of the key.
C35_SumsRegroup ==
    /\ C35_Laws
    /\ C35_Grouping

\* The key holds four entries in its first batch and more in its second,
\* the three decimal weights among them.
C35_Witness ==
    /\ HasKey(batchesByKey, currentKey)
    /\ Len(batchesByKey[currentKey]) = 2
    /\ Len(batchesByKey[currentKey][1].entries) = 4
    /\ Len(batchesByKey[currentKey][2].entries) >= 1
    /\ DecimalValues \subseteq
          {e.value : e \in {Flatten(batchesByKey[currentKey])[i] :
                               i \in 1..Len(Flatten(batchesByKey[currentKey]))}}
    /\ categoryWeight(batchesByKey[currentKey], 2) % Unit # 0

C36_Stored ==
    /\ storedLedger(ledgerStorage) = batchesByKey
    /\ \A k \in DOMAIN batchesByKey : k[2] \in CategoryIdSet(categories)

C36_ReloadStep ==
    /\ last'.op = "navigate" =>
          /\ batchesByKey' = batchesByKey
          /\ categories' = categories
    /\ (last'.op = "deleteCategory" /\ last'.ret) =>
          \A k \in DOMAIN batchesByKey :
              k[2] = last'.categoryId =>
                  k \notin DOMAIN storedLedger(ledgerStorage')

\* C36: persist-then-reload is a round trip: when the writes succeed, after
\* any sequence of ledger and category operations the state rebuilt on
\* reload from the batch-key index and the per-key records equals the
\* in-memory ledger (same keys, same batches in the same order), and the
\* keys removed by a category cascade do not reappear after a reload.
C36_ReloadRoundTrip ==
    /\ []C36_Stored
    /\ [][C36_ReloadStep]_vars

\* The ledger has just been reloaded with entries in it while storage still
\* holds the record, with entries, of a key removed by a category cascade.
C36_Witness ==
    /\ last.op = "navigate"
    /\ currentView = "settlement"
    /\ \E k \in DOMAIN batchesByKey : Flatten(batchesByKey[k]) # <<>>
    /\ \E k \in (DOMAIN ledgerStorage.data) \ DOMAIN batchesByKey :
          /\ Flatten(ledgerStorage.data[k]) # <<>>
          /\ k[2] \notin CategoryIdSet(categories)

C37_SelectStep ==
    /\ (last'.op = "setActiveEntity" /\ ~last'.found) =>
          activeEntityByMode' = activeEntityByMode
    /\ ( /\ last'.op = "addEntity"
         /\ Len(entitiesByMode'[mode]) = Len(entitiesByMode[mode]) + 1 )
       => activeEntityByMode'[mode] =
             entitiesByMode'[mode][Len(entitiesByMode'[mode])].id
    /\ ( /\ last'.op = "removeEntity"
         /\ last'.ret
         /\ last'.entityId = activeEntityByMode[mode] )
       => activeEntityByMode'[mode] = entitiesByMode'[mode][1].id
    /\ (last'.op = "removeEntity" /\ last'.ret) =>
          (last'.hit = "active" <=> last'.entityId = activeEntityByMode[mode])
    /\ last'.op \in {"setActiveEntity", "addEntity", "removeEntity"} =>
          \A m \in Modes \ {mode} :
              activeEntityByMode'[m] = activeEntityByMode[m]

\* C37: for each operation mode, after any sequence of addEntity,
\* removeEntity, renameEntity, setActiveEntity and setMode the stored active
\* entity id of the mode refers to an entity of that mode's list:
\* setActiveEntity with an unknown id is ignored, addEntity selects the new
\* entity and removing the active entity selects the first remaining one.
C37_ActiveEntityListed ==
    /\ [](\A m \in Modes : activeEntityByMode[m] \in EntityIdsOf(m))
    /\ [][C37_SelectStep]_vars

\* The active entity has just been removed from a list of three and the
\* first remaining entity, the default provider, is selected.
C37_Witness ==
    /\ last.op = "removeEntity"
    /\ last.ret
    /\ last.hit = "active"
    /\ mode = "DESCARGA"
    /\ last.entityId \notin EntityIdsOf(mode)
    /\ Len(entitiesByMode[mode]) = 2
    /\ activeEntityByMode[mode] = DEFAULT_ENTITY
    /\ entitiesByMode[mode][2].id # last.entityId

\* setActiveEntity with the id of an entity of the other mode has just been
\* ignored while an added entity is active.
C37_WitnessUnknown ==
    /\ last.op = "setActiveEntity"
    /\ ~last.found
    /\ activeEntityByMode[mode] \notin {DEFAULT_ENTITY, WAREHOUSE_ENTITY}
    /\ activeEntityByMode[mode] \in EntityIdsOf(mode)

\* C38: a confirmed deletion of an entity removes the entity and all of its
\* recorded weights: after removeEntity(e) has succeeded the ledger holds no
\* key, and no entry, for entity e.
C38_RemovalDeletesWeights ==
    (last.op = "removeEntity" /\ last.ret) =>
        /\ last.entityId \notin EntityIdsOf(mode)
        /\ \A k \in DOMAIN batchesByKey : k[1] # last.entityId
        /\ \A k \in DOMAIN storedLedger(ledgerStorage) : k[1] # last.entityId

\* The time of the last showToast call while its own timer is pending: that
\* timer is the one due last.
LastShownAt ==
    (CHOOSE due \in toastTimers : \A other \in toastTimers : other <= due)
        - TOAST_DURATION

C39_ToastStep ==
    /\ last'.op = "showToast" =>
          /\ toast'.isVisible
          /\ toast'.message = last'.name
    /\ (toast.isVisible /\ ~toast'.isVisible) =>
          \/ last'.op = "hideToast"
          \/ /\ last'.op = "timeout"
             /\ now >= LastShownAt + TOAST_DURATION

\* C39: each showToast(m) makes the toast visible with message m, and it
\* stays visible until TOAST_DURATION has elapsed since that call or
\* hideToast is called, whichever comes first; a pending timer left by an
\* earlier showToast never hides a toast shown by a later showToast before
\* the later toast's own duration has elapsed.
C39_ToastKeepsItsDuration ==
    [][C39_ToastStep]_vars

====
